---- MODULE Spec2Model ----
(***************************************************************************)
(* Storefront checkout: cart validation, checkout order creation, and the  *)
(* two payment confirmation paths (client redirect and gateway webhook)    *)
(* over the Product and Order collections.                                 *)
(*                                                                         *)
(* Money is a fixed-point integer in units of 1/100000 of the currency     *)
(* unit, so 40.00 is 4000000 and one cent is 1000.  Every price used here  *)
(* has at most three decimals, so price * quantity and 8% of it are exact  *)
(* in these units, and none of the values that reach Math.round lies on a  *)
(* rounding tie, where binary floating point could round the other way.    *)
(*                                                                         *)
(* An HMAC-SHA256 hex digest is modelled as the pair <<secret, message>>:  *)
(* two digests are equal exactly when secret and message are equal.  An    *)
(* absent or empty signature is the empty tuple.                           *)
(***************************************************************************)
EXTENDS Integers, Sequences, FiniteSets, TLC

VARIABLES
  products,       \* Product collection: product id -> document
  orders,         \* Order collection, in order of creation; _id is the index
  gatewayOrders,  \* orders created at the payment gateway; id is the index
  phase,          \* "idle": waiting for a request; "done": a response was sent
  req,            \* the request being answered
  resp,           \* the response sent for it
  inflight        \* handlers that run concurrently, each between two awaits

vars == <<products, orders, gatewayOrders, phase, req, resp, inflight>>

----------------------------------------------------------------------------
(* Bounds of the model *)

MaxOrders == 1      \* orders that checkout may create
MaxItems == 2       \* items in a cart

----------------------------------------------------------------------------
(* Program constants *)

MinQuantity == 1            \* isInt({ min: 1, ... })
MaxQuantity == 10           \* isInt({ ..., max: 10 })
TaxPercent == 8             \* subtotal * 0.08
FreeShippingFrom == 5000000 \* subtotal >= 50
ShippingFee == 999000       \* 9.99

KeySecret == "key_secret"          \* config.razorpay.keySecret
WebhookSecret == "webhook_secret"  \* config.razorpay.webhookSecret

----------------------------------------------------------------------------
(* Documents *)

NoUser == "anonymous"       \* req.user == null
Users == {"u1", "u2"}

Variant(size, design, stock) == [size |-> size, design |-> design, stock |-> stock]

Image(url, isPrimary) == [url |-> url, isPrimary |-> isPrimary]

\* The catalog the store starts with, every product as its last save left it.
\* "pE" is a well-formed id of no product.
InitialProducts ==
  [ pA |-> [title |-> "A", price |-> 4000000, active |-> TRUE,
            images |-> << Image("a1.jpg", FALSE), Image("a2.jpg", TRUE) >>,
            variants |-> << Variant("S", "classic", 2), Variant("M", "classic", 1) >>],
    pB |-> [title |-> "B", price |-> 1001400, active |-> TRUE,
            images |-> << Image("b1.jpg", TRUE) >>,
            variants |-> << Variant("S", "classic", 1) >>],
    pC |-> [title |-> "C", price |-> 1000000, active |-> TRUE,
            images |-> << >>,
            variants |-> << Variant("S", "classic", 1) >>],
    pD |-> [title |-> "D", price |-> 2500000, active |-> FALSE,
            images |-> << Image("d1.jpg", TRUE) >>,
            variants |-> << Variant("S", "classic", 1) >>] ]

MissingProductId == "pE"

----------------------------------------------------------------------------
(* Arithmetic of the handlers *)

\* Math.round(x * 100) / 100 for x >= 0: the nearest cent, a half rounding up.
Round2(x) == ((x + 500) \div 1000) * 1000

\* Math.round(total * 100): the amount in the gateway's minor unit.
ToMinorUnits(total) == (total + 500) \div 1000

\* variants.find(v => v.size === size && v.design === design): the index of the
\* first matching variant, 0 when there is none.
FindVariant(variants, size, design) ==
  LET hits == {i \in 1..Len(variants) :
                 variants[i].size = size /\ variants[i].design = design}
  IN IF hits = {} THEN 0 ELSE CHOOSE i \in hits : \A j \in hits : i <= j

\* product.images.find(img => img.isPrimary)?.url || product.images[0]?.url:
\* the url of the first primary image, else of the first image, else nothing.
PrimaryImageUrl(images) ==
  LET primary == {i \in 1..Len(images) : images[i].isPrimary}
  IN IF primary # {} THEN images[CHOOSE i \in primary : \A j \in primary : i <= j].url
     ELSE IF Len(images) > 0 THEN images[1].url
     ELSE ""

\* Mutation of EnsurePrimaryImage: the first image is made the one primary image.
EnsurePrimaryImageResetToFirst(product) ==
  [product EXCEPT !.images =
     [i \in 1..Len(product.images) |-> [product.images[i] EXCEPT !.isPrimary = (i = 1)]]]

\* productSchema.pre('save'): the first image becomes primary when the product
\* has images and none of them is primary.
EnsurePrimaryImage(product) ==
  IF Len(product.images) > 0
     /\ ~\E i \in 1..Len(product.images) : product.images[i].isPrimary
  THEN [product EXCEPT !.images[1].isPrimary = TRUE]
  ELSE product

\* isInt({ min: 1, max: 10 })
ValidQuantity(q) == q >= MinQuantity /\ q <= MaxQuantity

\* Mutation of Unavailable: the active flag is not looked at.
UnavailableMissingOnly(prods, productId) == productId \notin DOMAIN prods

\* !product || !product.active
Unavailable(prods, productId) ==
  productId \notin DOMAIN prods \/ ~prods[productId].active

\* Mutation of InsufficientStock: only an empty stock is refused.
OutOfStock(variant, quantity) == variant.stock <= 0

\* variant.stock < quantity
InsufficientStock(variant, quantity) == variant.stock < quantity

----------------------------------------------------------------------------
(* Requests and responses.  Both are records with a fixed set of fields;   *)
(* a field a route does not use keeps its blank value.                     *)

\* A product document with nothing in it.
BlankProduct ==
  [title |-> "", price |-> 0, active |-> FALSE, images |-> <<>>, variants |-> <<>>]

BlankReq ==
  [route |-> "none", token |-> [kind |-> "absent", userId |-> ""],
   user |-> NoUser, xhr |-> FALSE, acceptsJson |-> FALSE, items |-> <<>>,
   productId |-> "", doc |-> BlankProduct,
   shippingInfo |-> "", razorpay_payment_id |-> "", razorpay_order_id |-> 0,
   razorpay_signature |-> <<>>, orderId |-> 0,
   xRazorpaySignature |-> <<>>,
   body |-> [event |-> "", orderId |-> 0, paymentId |-> "", rzpOrderId |-> 0]]

BlankResp ==
  [status |-> 0, message |-> "", items |-> <<>>, subtotal |-> 0, tax |-> 0,
   shipping |-> 0, total |-> 0, orderId |-> 0, razorpayOrderId |-> 0,
   amount |-> 0, maxQuantity |-> 0, handled |-> "", log |-> <<>>]

ErrorResp(status, message) ==
  [BlankResp EXCEPT !.status = status, !.message = message]

\* req.xhr || req.headers.accept?.includes('application/json')
JsonClient(r) == r.xhr \/ r.acceptsJson

\* requireAuth: 401 for a JSON client, a redirect to /auth/login otherwise.
AuthFailure(r) ==
  IF JsonClient(r) THEN ErrorResp(401, "Authentication required")
  ELSE ErrorResp(302, "/auth/login")

----------------------------------------------------------------------------
(* POST /cart/add *)

AddResponse(prods, r) ==
  LET item == r.items[1] IN
  IF item.size = "" \/ item.design = "" \/ ~ValidQuantity(item.quantity)
  THEN ErrorResp(400, "Validation failed")
  ELSE IF Unavailable(prods, item.productId)
  THEN ErrorResp(404, "Product not found")
  ELSE LET product == prods[item.productId]
           v == FindVariant(product.variants, item.size, item.design) IN
       IF v = 0
       THEN ErrorResp(400, "Selected variant not available")
       ELSE IF InsufficientStock(product.variants[v], item.quantity)
       THEN ErrorResp(400, "Only N items available in stock")
       ELSE [BlankResp EXCEPT
               !.status = 200,
               !.message = "Item added to cart",
               !.items = << [product |-> item.productId, title |-> product.title,
                             price |-> product.price, quantity |-> item.quantity,
                             size |-> item.size, design |-> item.design,
                             image |-> PrimaryImageUrl(product.images)] >>,
               !.maxQuantity = IF product.variants[v].stock < MaxQuantity
                               THEN product.variants[v].stock ELSE MaxQuantity]

----------------------------------------------------------------------------
(* POST /cart/validate *)

\* The response once every item has passed the loop.
PricedResponse(validatedItems, subtotal) ==
  LET tax == (subtotal * TaxPercent) \div 100
      shipping == IF subtotal >= FreeShippingFrom THEN 0 ELSE ShippingFee
      total == subtotal + tax + shipping
  IN [BlankResp EXCEPT
        !.status = 200,
        !.items = validatedItems,
        !.subtotal = Round2(subtotal),
        !.tax = Round2(tax),
        !.shipping = Round2(shipping),
        !.total = Round2(total)]

\* Mutation of ValidatedItem: the price is taken from the request.
ValidatedItemClientPrice(product, item, variant) ==
  [product |-> item.productId, title |-> product.title, price |-> item.price,
   quantity |-> item.quantity, size |-> variant.size, design |-> variant.design,
   image |-> PrimaryImageUrl(product.images)]

\* The snapshot pushed for an item that passed.
ValidatedItem(product, item, variant) ==
  [product |-> item.productId, title |-> product.title, price |-> product.price,
   quantity |-> item.quantity, size |-> variant.size, design |-> variant.design,
   image |-> PrimaryImageUrl(product.images)]

\* for (const item of items) { ... }: items i.. are still to be looked at.
RECURSIVE ValidateLoop(_, _, _, _, _)
ValidateLoop(prods, items, i, validatedItems, subtotal) ==
  IF i > Len(items) THEN PricedResponse(validatedItems, subtotal)
  ELSE
    LET item == items[i] IN
    IF Unavailable(prods, item.productId)
    THEN ErrorResp(400, "Product is no longer available")
    ELSE LET product == prods[item.productId]
             v == FindVariant(product.variants, item.size, item.design) IN
         IF v = 0
         THEN ErrorResp(400, "Variant is no longer available")
         ELSE IF InsufficientStock(product.variants[v], item.quantity)
         THEN ErrorResp(400, "Only N items available")
         ELSE ValidateLoop(prods, items, i + 1,
                Append(validatedItems, ValidatedItem(product, item, product.variants[v])),
                subtotal + product.price * item.quantity)

ValidateResponse(prods, items) ==
  IF Len(items) < 1 \/ \E i \in 1..Len(items) : ~ValidQuantity(items[i].quantity)
  THEN ErrorResp(400, "Validation failed")
  ELSE ValidateLoop(prods, items, 1, <<>>, 0)

----------------------------------------------------------------------------
(* Order documents *)

Today == "261101"           \* YYMMDD of the day the requests fall on

\* parseInt(lastOrder.orderNumber.slice(-3)): the number its last three digits spell.
LastSequence(orderNumber) == orderNumber.sequence % 1000

\* findOne({createdAt: {$gte: today, $lt: tomorrow}}).sort({createdAt: -1}):
\* the latest of the orders 1..i that was created today, 0 when there is none.
RECURSIVE LatestOfToday(_, _)
LatestOfToday(ords, i) ==
  IF i = 0 THEN 0
  ELSE IF ords[i].orderNumber.date = Today THEN i
  ELSE LatestOfToday(ords, i - 1)

\* orderSchema.pre('save') for a new document: the order number after the
\* latest order created today, or 001.  The sequence is kept as the number
\* that padStart(3, '0') prints.
NextOrderNumber(ords) ==
  LET lastOrder == LatestOfToday(ords, Len(ords))
      sequence == IF lastOrder = 0 THEN 1
                  ELSE LastSequence(ords[lastOrder].orderNumber) + 1
  IN [date |-> Today, sequence |-> sequence]

\* new Order({...}) of the checkout handler, with the schema's defaults.
NewOrder(user, validatedCart, shippingInfo) ==
  [user |-> user,
   items |-> validatedCart.items,
   subtotal |-> validatedCart.subtotal,
   tax |-> validatedCart.tax,
   shipping |-> validatedCart.shipping,
   discount |-> 0,
   total |-> validatedCart.total,
   status |-> "pending",
   shippingInfo |-> shippingInfo,
   paymentInfo |-> [status |-> "pending", amount |-> validatedCart.total,
                    razorpayOrderId |-> 0, razorpayPaymentId |-> "", paidAt |-> FALSE],
   orderNumber |-> [date |-> "", sequence |-> 0]]

\* Mutation of DuplicateOrderNumber: the collection has no unique index.
DuplicateOrderNumberNoIndex(ords, orderNumber) == FALSE

\* The unique index on orderNumber rejects a second document with the same number.
DuplicateOrderNumber(ords, orderNumber) ==
  \E i \in 1..Len(ords) : ords[i].orderNumber = orderNumber

----------------------------------------------------------------------------
(* POST /cart/create-razorpay-order *)

\* Mutation of GatewayOrder: the amount is sent in the major unit.
GatewayOrderMajorUnits(order, orderId) ==
  [amount |-> order.total \div 100000, currency |-> "INR",
   notes |-> [orderId |-> orderId, userId |-> order.user]]

\* razorpay.orders.create({amount, currency, receipt, notes}) at the gateway.
GatewayOrder(order, orderId) ==
  [amount |-> ToMinorUnits(order.total), currency |-> "INR",
   notes |-> [orderId |-> orderId, userId |-> order.user]]

\* The handler behind requireAuth and its validators; the result is the state
\* of both collections after it and the response it sent.  log lists the
\* handler's writes and its reply in the order it makes them.
\* gatewayUp: whether razorpay.orders.create answers; when it rejects, the
\* catch block replies 500 and the order saved before the call stays.
CheckoutOutcome(prods, ords, gws, r, gatewayUp) ==
  LET unchanged(response) == [orders |-> ords, gatewayOrders |-> gws, resp |-> response]
  IN
  IF r.user = NoUser THEN unchanged(AuthFailure(r))
  ELSE IF Len(r.items) < 1 \/ r.shippingInfo = ""
  THEN unchanged(ErrorResp(400, "Validation failed"))
  ELSE
    LET validatedCart == ValidateResponse(prods, r.items) IN
    IF validatedCart.status # 200
    THEN unchanged(ErrorResp(400, validatedCart.message))
    ELSE
      LET orderId == Len(ords) + 1
          order == [NewOrder(r.user, validatedCart, r.shippingInfo)
                      EXCEPT !.orderNumber = NextOrderNumber(ords)]
      IN
      IF DuplicateOrderNumber(ords, order.orderNumber)
      THEN unchanged(ErrorResp(500, "Server error"))
      ELSE
        LET saved == Append(ords, order)
            razorpayOrderId == Len(gws) + 1
            razorpayOrder == GatewayOrder(saved[orderId], orderId)
            updated == [saved EXCEPT ![orderId].paymentInfo.razorpayOrderId = razorpayOrderId]
        IN
        IF ~gatewayUp
        THEN [orders |-> saved, gatewayOrders |-> gws,
              resp |-> [ErrorResp(500, "Server error") EXCEPT
                          !.log = <<"order.save", "razorpay.orders.create">>]]
        ELSE
           [orders |-> updated,
            gatewayOrders |-> Append(gws, razorpayOrder),
            resp |-> [BlankResp EXCEPT
                        !.status = 200,
                        !.razorpayOrderId = razorpayOrderId,
                        !.orderId = orderId,
                        !.amount = razorpayOrder.amount,
                        !.log = <<"order.save", "razorpay.orders.create",
                                  "order.save", "res.json">>]]

----------------------------------------------------------------------------
(* Payment confirmation, client-redirect path: POST /cart/verify-payment *)

Hmac(secret, message) == <<secret, message>>

\* for (const item of order.items) { ... variant.stock -= item.quantity;
\* await product.save() }.  The schema's min: 0 on stock makes product.save()
\* reject a negative stock; the rejection leaves the loop (ok = FALSE) with
\* the saves made so far in place.
RECURSIVE VerifyStockLoop(_, _, _)
VerifyStockLoop(prods, items, i) ==
  IF i > Len(items) THEN [products |-> prods, ok |-> TRUE]
  ELSE
    LET item == items[i] IN
    IF item.product \notin DOMAIN prods THEN VerifyStockLoop(prods, items, i + 1)
    ELSE
      LET v == FindVariant(prods[item.product].variants, item.size, item.design) IN
      IF v = 0 THEN VerifyStockLoop(prods, items, i + 1)
      ELSE
        LET stock == prods[item.product].variants[v].stock - item.quantity IN
        IF stock < 0 THEN [products |-> prods, ok |-> FALSE]
        ELSE VerifyStockLoop(
               [prods EXCEPT ![item.product] =
                  EnsurePrimaryImage([@ EXCEPT !.variants[v].stock = stock])],
               items, i + 1)

\* Mutation of VerifySignatureOk: the HMAC covers the gateway order id alone.
VerifySignatureOkOrderIdOnly(r) ==
  /\ Len(r.razorpay_signature) = 2
  /\ r.razorpay_signature[1] = KeySecret
  /\ r.razorpay_signature[2][1] = r.razorpay_order_id

\* expectedSignature === razorpay_signature, the HMAC taken over
\* razorpay_order_id + "|" + razorpay_payment_id under the key secret.
VerifySignatureOk(r) ==
  Hmac(KeySecret, <<r.razorpay_order_id, r.razorpay_payment_id>>) = r.razorpay_signature

\* order.paymentInfo.status = 'completed'; ...; order.status = 'confirmed'
VerifyConfirm(order, paymentId) ==
  [order EXCEPT !.paymentInfo.status = "completed",
                !.paymentInfo.razorpayPaymentId = paymentId,
                !.status = "confirmed"]

\* Mutation of VerifyOutcome: the order's owner is not compared with req.user.
VerifyOutcomeAnyOwner(prods, ords, r) ==
  LET unchanged(response) == [products |-> prods, orders |-> ords, resp |-> response]
  IN
  IF r.user = NoUser THEN unchanged(AuthFailure(r))
  ELSE IF r.razorpay_payment_id = "" \/ r.razorpay_order_id = 0
          \/ r.razorpay_signature = <<>>
  THEN unchanged(ErrorResp(400, "Validation failed"))
  ELSE
    IF ~VerifySignatureOk(r)
    THEN unchanged(ErrorResp(400, "Payment verification failed"))
    ELSE IF r.orderId \notin 1..Len(ords)
    THEN unchanged(ErrorResp(404, "Order not found"))
    ELSE
      LET saved == [ords EXCEPT ![r.orderId] = VerifyConfirm(@, r.razorpay_payment_id)]
          stock == VerifyStockLoop(prods, saved[r.orderId].items, 1)
      IN [products |-> stock.products,
          orders |-> saved,
          resp |-> IF stock.ok
                   THEN [BlankResp EXCEPT !.status = 200,
                                          !.message = "Payment verified successfully",
                                          !.orderId = r.orderId]
                   ELSE ErrorResp(500, "Server error")]

\* The handler behind requireAuth and its validators.
VerifyOutcome(prods, ords, r) ==
  LET unchanged(response) == [products |-> prods, orders |-> ords, resp |-> response]
  IN
  IF r.user = NoUser THEN unchanged(AuthFailure(r))
  ELSE IF r.razorpay_payment_id = "" \/ r.razorpay_order_id = 0
          \/ r.razorpay_signature = <<>>
  THEN unchanged(ErrorResp(400, "Validation failed"))
  ELSE
    IF ~VerifySignatureOk(r)
    THEN unchanged(ErrorResp(400, "Payment verification failed"))
    ELSE IF r.orderId \notin 1..Len(ords)
    THEN unchanged(ErrorResp(404, "Order not found"))
    ELSE IF ords[r.orderId].user # r.user
    THEN unchanged(ErrorResp(403, "Unauthorized"))
    ELSE
      LET saved == [ords EXCEPT ![r.orderId] = VerifyConfirm(@, r.razorpay_payment_id)]
          stock == VerifyStockLoop(prods, saved[r.orderId].items, 1)
      IN [products |-> stock.products,
          orders |-> saved,
          resp |-> IF stock.ok
                   THEN [BlankResp EXCEPT !.status = 200,
                                          !.message = "Payment verified successfully",
                                          !.orderId = r.orderId]
                   ELSE ErrorResp(500, "Server error")]

----------------------------------------------------------------------------
(* Payment confirmation, webhook path: POST /webhooks/razorpay *)

\* for (const item of order.items) { ... if (variant && variant.stock >=
\* item.quantity) { variant.stock -= item.quantity; await product.save() } }
RECURSIVE CapturedStockLoop(_, _, _)
CapturedStockLoop(prods, items, i) ==
  IF i > Len(items) THEN prods
  ELSE
    LET item == items[i] IN
    IF item.product \notin DOMAIN prods THEN CapturedStockLoop(prods, items, i + 1)
    ELSE
      LET v == FindVariant(prods[item.product].variants, item.size, item.design) IN
      IF v # 0 /\ prods[item.product].variants[v].stock >= item.quantity
      THEN CapturedStockLoop(
             [prods EXCEPT ![item.product] =
                EnsurePrimaryImage([@ EXCEPT !.variants[v].stock = @ - item.quantity])],
             items, i + 1)
      ELSE CapturedStockLoop(prods, items, i + 1)

\* The stock loop of a handler that leaves the loop at the first item it
\* cannot decrement.
RECURSIVE StockLoopUntilShortage(_, _, _)
StockLoopUntilShortage(prods, items, i) ==
  IF i > Len(items) THEN prods
  ELSE
    LET item == items[i] IN
    IF item.product \notin DOMAIN prods THEN prods
    ELSE
      LET v == FindVariant(prods[item.product].variants, item.size, item.design) IN
      IF v # 0 /\ prods[item.product].variants[v].stock >= item.quantity
      THEN StockLoopUntilShortage(
             [prods EXCEPT ![item.product] =
                EnsurePrimaryImage([@ EXCEPT !.variants[v].stock = @ - item.quantity])],
             items, i + 1)
      ELSE prods

\* Mutation of HandlePaymentCaptured: the stock loop ends at the first item
\* whose stock is not decremented.
HandlePaymentCapturedUntilShortage(prods, ords, payment) ==
  IF payment.orderId = 0 \/ payment.orderId \notin 1..Len(ords)
  THEN [products |-> prods, orders |-> ords]
  ELSE
    LET saved == [ords EXCEPT ![payment.orderId].paymentInfo.status = "paid",
                              ![payment.orderId].paymentInfo.razorpayPaymentId = payment.paymentId,
                              ![payment.orderId].paymentInfo.paidAt = TRUE,
                              ![payment.orderId].status = "confirmed"]
    IN [products |-> StockLoopUntilShortage(prods, saved[payment.orderId].items, 1),
        orders |-> saved]

\* Mutation of HandlePaymentCaptured: an order that is already confirmed is
\* left alone.
HandlePaymentCapturedOnce(prods, ords, payment) ==
  IF payment.orderId = 0 \/ payment.orderId \notin 1..Len(ords)
  THEN [products |-> prods, orders |-> ords]
  ELSE IF ords[payment.orderId].status = "confirmed"
  THEN [products |-> prods, orders |-> ords]
  ELSE
    LET saved == [ords EXCEPT ![payment.orderId].paymentInfo.status = "paid",
                              ![payment.orderId].paymentInfo.razorpayPaymentId = payment.paymentId,
                              ![payment.orderId].paymentInfo.paidAt = TRUE,
                              ![payment.orderId].status = "confirmed"]
    IN [products |-> CapturedStockLoop(prods, saved[payment.orderId].items, 1),
        orders |-> saved]

\* Mutation of HandlePaymentCaptured: the items' titles and prices are read
\* again from the products before the order is saved.
HandlePaymentCapturedRefreshed(prods, ords, payment) ==
  IF payment.orderId = 0 \/ payment.orderId \notin 1..Len(ords)
  THEN [products |-> prods, orders |-> ords]
  ELSE
    LET refreshed(item) ==
          IF item.product \in DOMAIN prods
          THEN [item EXCEPT !.title = prods[item.product].title,
                            !.price = prods[item.product].price]
          ELSE item
        saved == [ords EXCEPT ![payment.orderId].paymentInfo.status = "paid",
                              ![payment.orderId].paymentInfo.razorpayPaymentId = payment.paymentId,
                              ![payment.orderId].paymentInfo.paidAt = TRUE,
                              ![payment.orderId].status = "confirmed",
                              ![payment.orderId].items =
                                 [i \in 1..Len(@) |-> refreshed(@[i])]]
    IN [products |-> CapturedStockLoop(prods, saved[payment.orderId].items, 1),
        orders |-> saved]

\* handlePaymentCaptured(payment)
HandlePaymentCaptured(prods, ords, payment) ==
  IF payment.orderId = 0 \/ payment.orderId \notin 1..Len(ords)
  THEN [products |-> prods, orders |-> ords]
  ELSE
    LET saved == [ords EXCEPT ![payment.orderId].paymentInfo.status = "paid",
                              ![payment.orderId].paymentInfo.razorpayPaymentId = payment.paymentId,
                              ![payment.orderId].paymentInfo.paidAt = TRUE,
                              ![payment.orderId].status = "confirmed"]
    IN [products |-> CapturedStockLoop(prods, saved[payment.orderId].items, 1),
        orders |-> saved]

\* handlePaymentFailed(payment)
HandlePaymentFailed(prods, ords, payment) ==
  IF payment.orderId = 0 \/ payment.orderId \notin 1..Len(ords)
  THEN [products |-> prods, orders |-> ords]
  ELSE [products |-> prods,
        orders |-> [ords EXCEPT ![payment.orderId].paymentInfo.status = "failed",
                                ![payment.orderId].status = "cancelled"]]

\* handleOrderPaid(razorpayOrder): Order.findOne({'paymentInfo.razorpayOrderId': id})
HandleOrderPaid(prods, ords, razorpayOrder) ==
  LET found == {i \in 1..Len(ords) :
                  ords[i].paymentInfo.razorpayOrderId = razorpayOrder.rzpOrderId}
  IN IF found = {} THEN [products |-> prods, orders |-> ords]
     ELSE LET o == CHOOSE i \in found : \A j \in found : i <= j IN
          [products |-> prods,
           orders |-> [ords EXCEPT ![o].paymentInfo.status = "paid",
                                   ![o].paymentInfo.paidAt = TRUE,
                                   ![o].status = "confirmed"]]

\* Mutation of WebhookSignatureOk: a request without the header is let through.
WebhookSignatureOkWhenPresent(r) ==
  r.xRazorpaySignature = <<>> \/ r.xRazorpaySignature = <<WebhookSecret, r.body>>

\* webhookSignature === expectedSignature, the HMAC taken over the raw body
\* under the webhook secret.
WebhookSignatureOk(r) == r.xRazorpaySignature = Hmac(WebhookSecret, r.body)

\* The route: signature check on the raw body, then the switch on event.event.
\* handled names the event handler that ran, "" when none did.
WebhookOutcome(prods, ords, r) ==
  LET reply(after, handler) ==
        [products |-> after.products, orders |-> after.orders,
         resp |-> [BlankResp EXCEPT !.status = 200, !.message = "ok",
                                    !.handled = handler]]
  IN
  IF ~WebhookSignatureOk(r)
  THEN [products |-> prods, orders |-> ords,
        resp |-> ErrorResp(400, "Webhook signature verification failed")]
  ELSE IF r.body.event = "payment.captured"
  THEN reply(HandlePaymentCaptured(prods, ords, r.body), "handlePaymentCaptured")
  ELSE IF r.body.event = "payment.failed"
  THEN reply(HandlePaymentFailed(prods, ords, r.body), "handlePaymentFailed")
  ELSE IF r.body.event = "order.paid"
  THEN reply(HandleOrderPaid(prods, ords, r.body), "handleOrderPaid")
  ELSE reply([products |-> prods, orders |-> ords], "")

----------------------------------------------------------------------------
(* The requests the environment sends *)

CartItem(productId, size, quantity, price) ==
  [productId |-> productId, size |-> size, design |-> "classic",
   quantity |-> quantity, price |-> price]

\* What a client may put in an item's price field: nothing changes it into
\* the catalog price.
ClientPrices == {0, 100000}

\* (product, size, quantity) of the items clients ask for: in stock, beyond
\* the stock, of a missing variant, of an inactive and of a missing product,
\* and with a quantity the validators refuse.
ItemChoices ==
  { <<"pA", "S", 1>>, <<"pA", "S", 2>>, <<"pA", "S", 3>>, <<"pA", "M", 1>>,
    <<"pB", "S", 1>>, <<"pB", "M", 1>>, <<"pC", "S", 1>>, <<"pD", "S", 1>>,
    <<"pD", "S", 2>>, <<MissingProductId, "S", 1>>, <<"pA", "S", MaxQuantity + 1>> }

ItemInputs ==
  { CartItem(c[1], c[2], c[3], p) : c \in ItemChoices, p \in ClientPrices }

Carts == UNION { [1..n -> ItemInputs] : n \in 0..MaxItems }

PaymentIds == {"pay_1", "pay_2"}

\* The gateway signs <order id>|<payment id> only for an order it created;
\* everyone else can only guess the secret, replay a signature made for
\* another payment, or send none.
VerifySignatures(gws, razorpayOrderId, paymentId) ==
  { <<>>, Hmac("guess", <<razorpayOrderId, paymentId>>) }
  \cup (IF razorpayOrderId \in 1..Len(gws)
        THEN { Hmac(KeySecret, <<razorpayOrderId, p>>) : p \in PaymentIds }
        ELSE {})

\* Events about a payment; payment.authorized is one the route has no case for.
PaymentEvents == {"payment.captured", "payment.failed", "payment.authorized"}

\* The bodies the gateway may sign: events about a payment whose notes name
\* an order (0: no notes.orderId), or about a gateway order.
WebhookBodies(ords) ==
  { [event |-> e, orderId |-> o, paymentId |-> p, rzpOrderId |-> 0] :
      e \in PaymentEvents, o \in 0..(Len(ords) + 1), p \in {"pay_1"} }
  \cup
  { [event |-> "order.paid", orderId |-> 0, paymentId |-> "", rzpOrderId |-> g] :
      g \in 1..(Len(ords) + 1) }

\* The gateway's signature of the body, a guess of the secret, the gateway's
\* signature of another body, or no header.
WebhookSignatures(ords, body) ==
  { <<>>, Hmac(WebhookSecret, body), Hmac("guess", body) }
  \cup { Hmac(WebhookSecret, b) : b \in {x \in WebhookBodies(ords) : x.event = "order.paid"} }

----------------------------------------------------------------------------
(* The state machine: one request is answered at a time, each handler in   *)
(* one step from the request to the response.                              *)

Init ==
  /\ products = InitialProducts
  /\ orders = <<>>
  /\ gatewayOrders = <<>>
  /\ phase = "idle"
  /\ req = BlankReq
  /\ resp = BlankResp
  /\ inflight = <<>>

AddToCart ==
  /\ phase = "idle"
  /\ \E item \in ItemInputs :
       LET r == [BlankReq EXCEPT !.route = "/cart/add", !.items = <<item>>] IN
       /\ req' = r
       /\ resp' = AddResponse(products, r)
  /\ phase' = "done"
  /\ UNCHANGED <<products, orders, gatewayOrders, inflight>>

ValidateCart ==
  /\ phase = "idle"
  /\ \E cart \in Carts :
       /\ req' = [BlankReq EXCEPT !.route = "/cart/validate", !.items = cart]
       /\ resp' = ValidateResponse(products, cart)
  /\ phase' = "done"
  /\ UNCHANGED <<products, orders, gatewayOrders, inflight>>

CreateRazorpayOrder ==
  /\ phase = "idle"
  /\ Len(orders) < MaxOrders
  /\ \E user \in Users \cup {NoUser}, xhr \in BOOLEAN, cart \in Carts,
        shippingInfo \in {"", "address"}, gatewayUp \in BOOLEAN :
       LET r == [BlankReq EXCEPT !.route = "/cart/create-razorpay-order",
                                 !.user = user, !.xhr = xhr, !.items = cart,
                                 !.shippingInfo = shippingInfo]
           out == CheckoutOutcome(products, orders, gatewayOrders, r, gatewayUp)
       IN /\ req' = r
          /\ resp' = out.resp
          /\ orders' = out.orders
          /\ gatewayOrders' = out.gatewayOrders
  /\ phase' = "done"
  /\ UNCHANGED <<products, inflight>>

VerifyPayment ==
  /\ phase = "idle"
  /\ \E user \in Users \cup {NoUser}, xhr \in BOOLEAN, paymentId \in PaymentIds,
        razorpayOrderId \in 1..(Len(gatewayOrders) + 1),
        orderId \in 1..(Len(orders) + 1) :
       \E signature \in VerifySignatures(gatewayOrders, razorpayOrderId, paymentId) :
         LET r == [BlankReq EXCEPT !.route = "/cart/verify-payment",
                                   !.user = user, !.xhr = xhr,
                                   !.razorpay_payment_id = paymentId,
                                   !.razorpay_order_id = razorpayOrderId,
                                   !.razorpay_signature = signature,
                                   !.orderId = orderId]
             out == VerifyOutcome(products, orders, r)
         IN /\ req' = r
            /\ resp' = out.resp
            /\ orders' = out.orders
            /\ products' = out.products
  /\ phase' = "done"
  /\ UNCHANGED <<gatewayOrders, inflight>>

RazorpayWebhook ==
  /\ phase = "idle"
  /\ \E body \in WebhookBodies(orders) :
       \E signature \in WebhookSignatures(orders, body) :
         LET r == [BlankReq EXCEPT !.route = "/webhooks/razorpay",
                                   !.xRazorpaySignature = signature,
                                   !.body = body]
             out == WebhookOutcome(products, orders, r)
         IN /\ req' = r
            /\ resp' = out.resp
            /\ orders' = out.orders
            /\ products' = out.products
  /\ phase' = "done"
  /\ UNCHANGED <<gatewayOrders, inflight>>

\* The response has been delivered; the server waits for the next request.
Finish ==
  /\ phase = "done"
  /\ phase' = "idle"
  /\ req' = BlankReq
  /\ resp' = BlankResp
  /\ UNCHANGED <<products, orders, gatewayOrders, inflight>>

Next ==
  \/ AddToCart
  \/ ValidateCart
  \/ CreateRazorpayOrder
  \/ VerifyPayment
  \/ RazorpayWebhook
  \/ Finish

Spec == Init /\ [][Next]_vars

----------------------------------------------------------------------------
(* Properties.  In a step of a handler the unprimed variables are the      *)
(* store the request met, req' is the request and resp' the response.      *)

Handling(route) == phase = "idle" /\ phase' = "done" /\ req'.route = route
Answered(route) == phase = "done" /\ req.route = route

\* The verification signature of the request is not the HMAC of
\* "razorpay_order_id|razorpay_payment_id" under the key secret.
ForgedVerifySignature(r) ==
  r.razorpay_signature # Hmac(KeySecret, <<r.razorpay_order_id, r.razorpay_payment_id>>)

\* C1, as stated: every POST /cart/verify-payment whose signature differs from
\* the expected HMAC is answered 400 and modifies no Order and no Product.
C1_AsStated ==
  [][ (Handling("/cart/verify-payment") /\ ForgedVerifySignature(req'))
        => (resp'.status = 400 /\ orders' = orders /\ products' = products) ]_vars

\* C1, amended: every POST /cart/verify-payment whose signature differs from
\* the expected HMAC modifies no Order and no Product; it is answered 400 when
\* the request is authenticated, and 401 (JSON client) or with a redirect to
\* the login page when it is not, requireAuth running before the handler.
C1_ForgedVerifyRejected ==
  [][ (Handling("/cart/verify-payment") /\ ForgedVerifySignature(req'))
        => /\ orders' = orders
           /\ products' = products
           /\ resp'.status = IF req'.user # NoUser THEN 400
                             ELSE IF req'.xhr THEN 401 ELSE 302 ]_vars

\* An authenticated owner replays, for payment pay_1, the signature the
\* gateway made for another payment of the same gateway order, against an
\* order that exists; the answer was 400.
C1_Witness ==
  /\ Answered("/cart/verify-payment")
  /\ req.user # NoUser
  /\ req.orderId \in 1..Len(orders)
  /\ orders[req.orderId].user = req.user
  /\ req.razorpay_payment_id = "pay_1"
  /\ req.razorpay_signature = Hmac(KeySecret, <<req.razorpay_order_id, "pay_2">>)
  /\ resp.status = 400
  /\ orders[req.orderId].status = "pending"

\* C2: every POST /webhooks/razorpay whose X-Razorpay-Signature header is
\* absent or differs from the HMAC of the raw body under the webhook secret is
\* answered 400, runs no event handler and modifies no Order and no Product.
C2_ForgedWebhookRejected ==
  [][ (Handling("/webhooks/razorpay")
         /\ req'.xRazorpaySignature # Hmac(WebhookSecret, req'.body))
        => /\ resp'.status = 400
           /\ resp'.handled = ""
           /\ orders' = orders
           /\ products' = products ]_vars

\* A payment.captured event for an existing pending order arrived without a
\* signature header and was refused.
C2_Witness ==
  /\ Answered("/webhooks/razorpay")
  /\ req.xRazorpaySignature = <<>>
  /\ req.body.event = "payment.captured"
  /\ req.body.orderId \in 1..Len(orders)
  /\ orders[req.body.orderId].status = "pending"
  /\ resp.status = 400

\* Some item of the cart asks for more than the current stock of its variant.
OverStock(prods, items) ==
  \E i \in 1..Len(items) :
    /\ items[i].productId \in DOMAIN prods
    /\ LET v == FindVariant(prods[items[i].productId].variants,
                            items[i].size, items[i].design)
       IN v # 0 /\ items[i].quantity > prods[items[i].productId].variants[v].stock

StockRoutes == {"/cart/add", "/cart/validate", "/cart/create-razorpay-order"}

Purchasable(prods, item) ==
  /\ item.productId \in DOMAIN prods
  /\ prods[item.productId].active
  /\ \E v \in 1..Len(prods[item.productId].variants) :
       /\ prods[item.productId].variants[v].size = item.size
       /\ prods[item.productId].variants[v].design = item.design

\* C4: POST /cart/validate returns a priced item list only if every item's
\* product exists and is active and its variant exists; if any item refers to
\* a missing product, an inactive product or a missing variant the request is
\* answered 400 and no partial list is returned.
C4_ValidateAllOrNothing ==
  Answered("/cart/validate") =>
    /\ resp.status = 200 =>
         /\ \A i \in 1..Len(req.items) : Purchasable(products, req.items[i])
         /\ Len(resp.items) = Len(req.items)
    /\ (\E i \in 1..Len(req.items) : ~Purchasable(products, req.items[i])) =>
         (resp.status = 400 /\ resp.items = <<>>)
    /\ resp.status # 200 => resp.items = <<>>

\* A cart whose first item is purchasable and in stock and whose second item
\* is of an inactive product was answered 400.
C4_Witness ==
  /\ Answered("/cart/validate")
  /\ Len(req.items) = 2
  /\ Purchasable(products, req.items[1])
  /\ ~OverStock(products, <<req.items[1]>>)
  /\ req.items[2].productId \in DOMAIN products
  /\ ~products[req.items[2].productId].active
  /\ resp.status = 400

----------------------------------------------------------------------------
(* Totals *)

\* The four amounts agree: total is subtotal + tax + shipping - discount to
\* the cent.
AmountsAddUp(subtotal, tax, shipping, discount, total) ==
  total = Round2(subtotal + tax + shipping - discount)

\* C5: the total returned by POST /cart/validate equals the returned subtotal
\* + returned tax + returned shipping - discount (0 on this path), rounded to
\* two decimals, and the same holds for the amounts persisted on every Order.
C5_TotalIsSumOfParts ==
  /\ (Answered("/cart/validate") /\ resp.status = 200) =>
       AmountsAddUp(resp.subtotal, resp.tax, resp.shipping, 0, resp.total)
  /\ \A o \in 1..Len(orders) :
       AmountsAddUp(orders[o].subtotal, orders[o].tax, orders[o].shipping,
                    orders[o].discount, orders[o].total)

\* Sum over the items of the stored product price times the quantity.
RECURSIVE StoredSubtotal(_, _)
StoredSubtotal(prods, items) ==
  IF items = <<>> THEN 0
  ELSE prods[Head(items).productId].price * Head(items).quantity
       + StoredSubtotal(prods, Tail(items))

\* C6: for every validated cart the subtotal is the sum of stored price times
\* quantity, the tax is 8% of it, and shipping is 9.99 unless the subtotal is
\* above 50, in which case it is 0; a cart of one item at 40 gives 40.00,
\* 3.20, 9.99 and 53.19.
C6_PricingRules ==
  (Answered("/cart/validate") /\ resp.status = 200) =>
    LET subtotal == StoredSubtotal(products, req.items) IN
    /\ resp.subtotal = Round2(subtotal)
    /\ resp.tax = Round2((subtotal * 8) \div 100)
    /\ resp.shipping = IF subtotal > 5000000 THEN 0 ELSE 999000
    /\ subtotal = 4000000 =>
         /\ resp.subtotal = 4000000
         /\ resp.tax = 320000
         /\ resp.shipping = 999000
         /\ resp.total = 5319000

\* The cart of the example, one item at 40, was validated.
C6_Example ==
  /\ Answered("/cart/validate")
  /\ resp.status = 200
  /\ Len(req.items) = 1
  /\ products[req.items[1].productId].price = 4000000
  /\ req.items[1].quantity = 1
  /\ resp.total = 5319000

\* The carts that ask for the same products, variants and quantities as cart
\* with any other client-supplied prices.
SameOrder(cart) ==
  { [i \in 1..Len(cart) |-> [cart[i] EXCEPT !.price = f[i]]] :
      f \in [1..Len(cart) -> ClientPrices] }

\* What the stored prices give for a cart that validates.
StoredPricing(prods, items) == PricedResponse(<<>>, StoredSubtotal(prods, items))

\* C7: the client cannot supply the price.  The prices, subtotal, tax,
\* shipping and total of a validated cart, the amounts persisted on the Order
\* and the gateway order amount are those derived from the stored Product
\* price, and are the same for every request asking for the same products,
\* variants and quantities, whatever prices the client sent.
C7_ClientCannotSupplyPrice ==
  /\ (Answered("/cart/validate") /\ resp.status = 200) =>
       LET stored == StoredPricing(products, req.items) IN
       /\ \A i \in 1..Len(req.items) :
            resp.items[i].price = products[req.items[i].productId].price
       /\ <<resp.subtotal, resp.tax, resp.shipping, resp.total>>
            = <<stored.subtotal, stored.tax, stored.shipping, stored.total>>
       /\ \A other \in SameOrder(req.items) :
            ValidateResponse(products, other) = resp
  /\ (Answered("/cart/create-razorpay-order") /\ resp.status = 200) =>
       LET stored == StoredPricing(products, req.items)
           order == orders[resp.orderId]
       IN
       /\ \A i \in 1..Len(req.items) :
            order.items[i].price = products[req.items[i].productId].price
       /\ <<order.subtotal, order.tax, order.shipping, order.total>>
            = <<stored.subtotal, stored.tax, stored.shipping, stored.total>>
       /\ order.paymentInfo.amount = stored.total
       /\ gatewayOrders[resp.razorpayOrderId].amount * 1000 = stored.total
       /\ resp.amount = gatewayOrders[resp.razorpayOrderId].amount

\* A checkout was accepted whose items all carried a client price different
\* from the stored price of their product.
C7_Witness ==
  /\ Answered("/cart/create-razorpay-order")
  /\ resp.status = 200
  /\ Len(req.items) = 2
  /\ \A i \in 1..Len(req.items) :
       req.items[i].price # products[req.items[i].productId].price
  /\ req.items[1].price # req.items[2].price

----------------------------------------------------------------------------
(* Payment confirmation *)

\* The units of variant v of product p that the items ask for.
RECURSIVE QuantityOf(_, _, _, _)
QuantityOf(items, p, size, design) ==
  IF items = <<>> THEN 0
  ELSE (IF Head(items).product = p /\ Head(items).size = size
           /\ Head(items).design = design
        THEN Head(items).quantity ELSE 0)
       + QuantityOf(Tail(items), p, size, design)

\* Every variant's stock in after is its stock in before less the units the
\* items ask of it.
StockDecremented(before, after, items) ==
  \A p \in DOMAIN before : \A v \in 1..Len(before[p].variants) :
    after[p].variants[v].stock =
      before[p].variants[v].stock
        - QuantityOf(items, p, before[p].variants[v].size, before[p].variants[v].design)

\* The request comes from the order's owner, names an existing order and
\* carries the gateway's signature for its payment.
OwnerVerifies(ords, r) ==
  /\ r.user # NoUser
  /\ ~ForgedVerifySignature(r)
  /\ r.orderId \in 1..Len(ords)
  /\ ords[r.orderId].user = r.user

\* C8: when POST /cart/verify-payment is called by the order's owner with a
\* matching signature for an existing order, the order becomes confirmed, the
\* payment id is recorded, and for every item the stock of the matching
\* variant is decremented by the item's quantity.
C8_VerifyConfirmsAndDecrements ==
  [][ (Handling("/cart/verify-payment") /\ OwnerVerifies(orders, req'))
        => /\ orders'[req'.orderId].status = "confirmed"
           /\ orders'[req'.orderId].paymentInfo.razorpayPaymentId = req'.razorpay_payment_id
           /\ StockDecremented(products, products', orders[req'.orderId].items) ]_vars

\* The request POST /cart/verify-payment that the owner of order o sends after
\* paying it with payment paymentId.
OwnerVerifyRequest(ords, o, paymentId) ==
  [BlankReq EXCEPT
     !.route = "/cart/verify-payment",
     !.user = ords[o].user,
     !.xhr = TRUE,
     !.razorpay_payment_id = paymentId,
     !.razorpay_order_id = ords[o].paymentInfo.razorpayOrderId,
     !.razorpay_signature =
        Hmac(KeySecret, <<ords[o].paymentInfo.razorpayOrderId, paymentId>>),
     !.orderId = o]

\* The validly signed webhook is a success event for order o.
SuccessEventFor(ords, r, o) ==
  /\ r.xRazorpaySignature = Hmac(WebhookSecret, r.body)
  /\ o \in 1..Len(ords)
  /\ \/ r.body.event = "payment.captured" /\ r.body.orderId = o
     \/ /\ r.body.event = "order.paid"
        /\ r.body.rzpOrderId = ords[o].paymentInfo.razorpayOrderId

\* C9: from the same pending order and the same stocks, a validly signed
\* payment.captured or order.paid webhook leaves the order's status, its
\* paymentInfo.status and every variant's stock as a successful POST
\* /cart/verify-payment for that order would.
C9_WebhookLikeVerify ==
  [][ \A o \in 1..Len(orders) :
        ( /\ Handling("/webhooks/razorpay")
          /\ SuccessEventFor(orders, req', o)
          /\ orders[o].status = "pending"
          /\ orders[o].paymentInfo.razorpayOrderId # 0 )
        => LET verified == VerifyOutcome(products, orders,
                                         OwnerVerifyRequest(orders, o, "pay_1"))
           IN verified.resp.status = 200 =>
                /\ orders'[o].status = verified.orders[o].status
                /\ orders'[o].paymentInfo.status = verified.orders[o].paymentInfo.status
                /\ products' = verified.products ]_vars

----------------------------------------------------------------------------
(* Checkout order creation *)

\* Position of the first occurrence of entry e in log, 0 when it has none.
FirstAt(log, e) ==
  LET at == {i \in 1..Len(log) : log[i] = e}
  IN IF at = {} THEN 0 ELSE CHOOSE i \in at : \A j \in at : i <= j

\* C10: on a successful POST /cart/create-razorpay-order an Order with status
\* pending and paymentInfo.status pending, holding the validated item snapshot
\* and the shipping address, is persisted before the gateway order is created;
\* the gateway order amount is the validated total in minor units; and when
\* the response is sent the order's stored razorpayOrderId is the gateway
\* order id returned to the client.
C10_CheckoutCreatesPendingOrder ==
  (Answered("/cart/create-razorpay-order") /\ resp.status = 200) =>
    LET validatedCart == ValidateResponse(products, req.items) IN
    /\ resp.orderId \in 1..Len(orders)
    /\ resp.razorpayOrderId \in 1..Len(gatewayOrders)
    /\ orders[resp.orderId].status = "pending"
    /\ orders[resp.orderId].paymentInfo.status = "pending"
    /\ orders[resp.orderId].user = req.user
    /\ orders[resp.orderId].items = validatedCart.items
    /\ orders[resp.orderId].shippingInfo = req.shippingInfo
    /\ FirstAt(resp.log, "order.save") > 0
    /\ FirstAt(resp.log, "order.save") < FirstAt(resp.log, "razorpay.orders.create")
    /\ FirstAt(resp.log, "razorpay.orders.create") < FirstAt(resp.log, "res.json")
    /\ gatewayOrders[resp.razorpayOrderId].amount * 1000 = validatedCart.total
    /\ gatewayOrders[resp.razorpayOrderId].notes.orderId = resp.orderId
    /\ orders[resp.orderId].paymentInfo.razorpayOrderId = resp.razorpayOrderId

\* A checkout of two items succeeded and its order is in the store.
C10_Witness ==
  /\ Answered("/cart/create-razorpay-order")
  /\ resp.status = 200
  /\ Len(req.items) = 2
  /\ Len(orders) = 1
  /\ Len(gatewayOrders) = 1

----------------------------------------------------------------------------
(* Order life cycle *)

\* The step makes order o confirmed: it is confirmed after the step and was
\* not, or did not exist, before it.
NewlyConfirmed(o) ==
  /\ o \in 1..Len(orders')
  /\ orders'[o].status = "confirmed"
  /\ (o > Len(orders) \/ orders[o].status # "confirmed")

\* The step answers a POST /cart/verify-payment for order o whose signature
\* matches, or a validly signed payment.captured or order.paid webhook for o.
ConfirmationFor(o) ==
  \/ /\ Handling("/cart/verify-payment")
     /\ ~ForgedVerifySignature(req')
     /\ req'.orderId = o
  \/ /\ Handling("/webhooks/razorpay")
     /\ SuccessEventFor(orders, req', o)

\* The step answers a request that is no confirmation of any order: a cart,
\* validation or checkout request, or one whose signature was rejected.
NotAConfirmation ==
  \/ \E route \in StockRoutes : Handling(route)
  \/ Handling("/cart/verify-payment") /\ ForgedVerifySignature(req')
  \/ Handling("/webhooks/razorpay")
       /\ req'.xRazorpaySignature # Hmac(WebhookSecret, req'.body)

\* Every order enters the store pending, and an order is made confirmed only
\* by a confirmation processed for it; requests that are no confirmation set
\* no order to confirmed and change no stock.
ConfirmedOnlyByConfirmation ==
  [][ /\ \A o \in (Len(orders) + 1)..Len(orders') : orders'[o].status = "pending"
      /\ \A o \in 1..Len(orders') : NewlyConfirmed(o) => ConfirmationFor(o)
      /\ NotAConfirmation =>
           /\ products' = products
           /\ \A o \in 1..Len(orders') : ~NewlyConfirmed(o) ]_vars

\* C11: every Order is created in status pending; an order becomes confirmed
\* only when a POST /cart/verify-payment with a matching signature, or a
\* validly signed payment.captured or order.paid webhook, is processed for it;
\* and no checkout, validation, rejected-signature or failed request (one
\* answered with an error) sets an order to confirmed or changes stock.
C11_ConfirmedOnlyWhenPaid ==
  [][ /\ \A o \in (Len(orders) + 1)..Len(orders') : orders'[o].status = "pending"
      /\ \A o \in 1..Len(orders') : NewlyConfirmed(o) => ConfirmationFor(o)
      /\ (phase = "idle" /\ phase' = "done"
            /\ (NotAConfirmation \/ resp'.status # 200)) =>
           /\ products' = products
           /\ \A o \in 1..Len(orders') : ~NewlyConfirmed(o) ]_vars

\* A POST /cart/verify-payment of the owner was answered 500 and left the
\* order confirmed and the stock of its first item decremented.
C11_FailedRequestConfirmed ==
  /\ Answered("/cart/verify-payment")
  /\ resp.status = 500
  /\ req.orderId \in 1..Len(orders)
  /\ orders[req.orderId].status = "confirmed"
  /\ products # InitialProducts

----------------------------------------------------------------------------
(* Order numbers over a day: checkouts answered one after another, on a    *)
(* day that starts with yesterday's order in the store and with as many    *)
(* orders of today as DayStarts says.                                      *)

Yesterday == "261031"

MaxNewOrders == 4           \* checkouts followed after the start of a run

\* Orders of today already in the store when a run starts.
DayStarts == {0, 997}

\* The checkout request every order of the day's store came from.
DayRequest(user) ==
  [BlankReq EXCEPT !.route = "/cart/create-razorpay-order",
                   !.user = user, !.xhr = TRUE,
                   !.items = << CartItem("pC", "S", 1, 0) >>,
                   !.shippingInfo = "address"]

\* The store after yesterday's checkout.
YesterdaysStore ==
  LET out == CheckoutOutcome(InitialProducts, <<>>, <<>>, DayRequest("u2"), TRUE)
  IN [orders |-> << [out.orders[1] EXCEPT !.orderNumber.date = Yesterday] >>,
      gatewayOrders |-> out.gatewayOrders]

\* The store after n more checkouts, answered one after another.  The run of
\* n is split in two halves, and the store is looked at before the next
\* checkout is applied to it, to keep the evaluation shallow.
RECURSIVE AfterCheckouts(_, _)
AfterCheckouts(store, n) ==
  IF n = 0 \/ Len(store.orders) = 0 THEN store
  ELSE IF n = 1
  THEN LET out == CheckoutOutcome(InitialProducts, store.orders,
                                  store.gatewayOrders, DayRequest("u1"), TRUE)
       IN [orders |-> out.orders, gatewayOrders |-> out.gatewayOrders]
  ELSE AfterCheckouts(AfterCheckouts(store, n \div 2), n - (n \div 2))

\* The store after yesterday's checkout and count checkouts of today.
DayStore(count) == AfterCheckouts(YesterdaysStore, count)

\* The positions in ords of the orders created today.
OrdersOfToday(ords) == {i \in 1..Len(ords) : ords[i].orderNumber.date = Today}

InitDay ==
  /\ products = InitialProducts
  /\ \E start \in DayStarts :
       LET store == DayStore(start) IN
       /\ orders = store.orders
       /\ gatewayOrders = store.gatewayOrders
  /\ phase = "idle"
  /\ req = BlankReq
  /\ resp = BlankResp
  /\ inflight = <<>>

\* POST /cart/create-razorpay-order, answered while no other request runs.
DayCheckout ==
  /\ phase = "idle"
  /\ \E start \in DayStarts :
       /\ start <= Cardinality(OrdersOfToday(orders))
       /\ Cardinality(OrdersOfToday(orders)) < start + MaxNewOrders
  /\ \E user \in Users \cup {NoUser}, gatewayUp \in BOOLEAN :
       LET r == DayRequest(user)
           out == CheckoutOutcome(products, orders, gatewayOrders, r, gatewayUp)
       IN /\ req' = r
          /\ resp' = out.resp
          /\ orders' = out.orders
          /\ gatewayOrders' = out.gatewayOrders
  /\ phase' = "done"
  /\ UNCHANGED <<products, inflight>>

NextDay ==
  \/ DayCheckout
  \/ Finish

SpecDay == InitDay /\ [][NextDay]_vars

\* The request passes requireAuth, the validators and the cart validation, so
\* the handler goes on to save a new Order.
CheckoutReachesSave(prods, r) ==
  /\ r.user # NoUser
  /\ r.shippingInfo # ""
  /\ ValidateResponse(prods, r.items).status = 200

\* C12: for orders saved one after another on the same local day, each new
\* order gets the date of the day and the sequence of the latest order created
\* since midnight plus one, 001 for the first order of the day, so that its
\* number is above every number given earlier that day, for any number of
\* orders in the day.
C12_DailySequence ==
  [][ (Handling("/cart/create-razorpay-order") /\ CheckoutReachesSave(products, req'))
        => LET lastOrder == LatestOfToday(orders, Len(orders))
               sequence == IF lastOrder = 0 THEN 1
                           ELSE orders[lastOrder].orderNumber.sequence + 1
           IN /\ Len(orders') = Len(orders) + 1
              /\ orders'[Len(orders')].orderNumber = [date |-> Today, sequence |-> sequence]
              /\ \A i \in OrdersOfToday(orders) :
                   orders[i].orderNumber.sequence < sequence ]_vars

\* The day's store holds a thousand orders and the next checkout, valid in
\* every respect, was answered 500 and left no order.
C12_ThousandAndFirst ==
  /\ Answered("/cart/create-razorpay-order")
  /\ CheckoutReachesSave(products, req)
  /\ Cardinality(OrdersOfToday(orders)) = 1000
  /\ orders[Len(orders)].orderNumber.sequence = 1000
  /\ resp.status = 500

\* Up to the day's order 1000 the numbers are as C12 says: the first checkout
\* of the day got 001 although yesterday's order is in the store, and the
\* numbers of the day are distinct and increase with the time of creation.
DailySequenceBelowThousand ==
  /\ \A i \in OrdersOfToday(orders) :
       orders[i].orderNumber.sequence = Cardinality({j \in OrdersOfToday(orders) : j <= i})
  /\ \A i \in OrdersOfToday(orders) : orders[i].orderNumber.sequence <= 1000

----------------------------------------------------------------------------
(* Authentication and the gates in front of the handlers *)

Admins == {"a1"}            \* users whose role is admin

\* The users collection: user id -> document.
UserDocs ==
  [u \in Users \cup Admins |-> [role |-> IF u \in Admins THEN "admin" ELSE "customer"]]

\* What the token cookie may hold: nothing; a string verifyToken answers null
\* for; one it throws on; or a token it decodes to a user id, of a user or of
\* a deleted account.
Tokens ==
  { [kind |-> k, userId |-> ""] : k \in {"absent", "invalid", "malformed"} }
  \cup { [kind |-> "signed", userId |-> u] : u \in DOMAIN UserDocs \cup {"gone"} }

\* No response sent: the middleware called next().
Pass == BlankResp

\* authenticate(req, res, next): req.user, and the response it sends.  dbUp:
\* whether User.findById answers; when it throws, the catch block runs.
Authenticate(token, dbUp) ==
  IF token.kind = "absent" THEN [user |-> NoUser, resp |-> Pass]
  ELSE IF token.kind = "malformed" THEN [user |-> NoUser, resp |-> Pass]
  ELSE IF token.kind = "invalid" THEN [user |-> NoUser, resp |-> Pass]
  ELSE IF ~dbUp THEN [user |-> NoUser, resp |-> Pass]
  ELSE IF token.userId \notin DOMAIN UserDocs THEN [user |-> NoUser, resp |-> Pass]
  ELSE [user |-> token.userId, resp |-> Pass]

\* requireAuth(req, res, next)
RequireAuth(r) == IF r.user = NoUser THEN AuthFailure(r) ELSE Pass

\* Mutation of RequireAdmin: the role is not looked at.
RequireAdminAnyUser(r) == IF r.user = NoUser THEN AuthFailure(r) ELSE Pass

\* requireAdmin(req, res, next): 403 as JSON or as the rendered error page.
RequireAdmin(r) ==
  IF r.user = NoUser THEN AuthFailure(r)
  ELSE IF UserDocs[r.user].role # "admin" THEN ErrorResp(403, "Admin access required")
  ELSE Pass

\* The response of a route that runs its handler behind a gate.
Guarded(gate, handlerResp) == IF gate # Pass THEN gate ELSE handlerResp

\* router.get('/checkout', requireAuth, ...): res.render('cart/checkout')
CheckoutPage(r) ==
  Guarded(RequireAuth(r),
          [BlankResp EXCEPT !.status = 200, !.handled = "render cart/checkout"])

\* A route behind requireAdmin; handled marks that its handler was reached.
AdminRoute(r) ==
  Guarded(RequireAdmin(r), [BlankResp EXCEPT !.status = 200, !.handled = "admin handler"])

\* The request as it leaves authenticate.
Authenticated(route, token, xhr, acceptsJson, dbUp) ==
  [BlankReq EXCEPT !.route = route, !.token = token, !.xhr = xhr,
                   !.acceptsJson = acceptsJson,
                   !.user = Authenticate(token, dbUp).user]

AuthCarts == { << CartItem("pA", "S", 1, 0) >>, << CartItem("pA", "S", 3, 0) >> }

GetCheckoutPage ==
  /\ phase = "idle"
  /\ \E token \in Tokens, xhr \in BOOLEAN, acceptsJson \in BOOLEAN, dbUp \in BOOLEAN :
       LET r == Authenticated("/cart/checkout", token, xhr, acceptsJson, dbUp) IN
       /\ req' = r
       /\ resp' = Guarded(Authenticate(token, dbUp).resp, CheckoutPage(r))
  /\ phase' = "done"
  /\ UNCHANGED <<products, orders, gatewayOrders, inflight>>

AdminRequest ==
  /\ phase = "idle"
  /\ \E token \in Tokens, xhr \in BOOLEAN, acceptsJson \in BOOLEAN, dbUp \in BOOLEAN :
       LET r == Authenticated("/admin", token, xhr, acceptsJson, dbUp) IN
       /\ req' = r
       /\ resp' = Guarded(Authenticate(token, dbUp).resp, AdminRoute(r))
  /\ phase' = "done"
  /\ UNCHANGED <<products, orders, gatewayOrders, inflight>>

\* POST /cart/create-razorpay-order with the token cookie of the client.
CheckoutWithToken ==
  /\ phase = "idle"
  /\ Len(orders) < MaxOrders
  /\ \E token \in Tokens, xhr \in BOOLEAN, acceptsJson \in BOOLEAN, dbUp \in BOOLEAN,
        cart \in AuthCarts :
       LET r == [Authenticated("/cart/create-razorpay-order", token, xhr,
                               acceptsJson, dbUp)
                   EXCEPT !.items = cart, !.shippingInfo = "address"]
           out == CheckoutOutcome(products, orders, gatewayOrders, r, TRUE)
       IN /\ req' = r
          /\ resp' = Guarded(Authenticate(token, dbUp).resp, out.resp)
          /\ orders' = out.orders
          /\ gatewayOrders' = out.gatewayOrders
  /\ phase' = "done"
  /\ UNCHANGED <<products, inflight>>

\* POST /cart/verify-payment with the token cookie of the client and the
\* gateway's signature for the payment of order 1.
VerifyWithToken ==
  /\ phase = "idle"
  /\ Len(gatewayOrders) >= 1
  /\ \E token \in Tokens, xhr \in BOOLEAN, acceptsJson \in BOOLEAN, dbUp \in BOOLEAN :
       LET r == [Authenticated("/cart/verify-payment", token, xhr, acceptsJson, dbUp)
                   EXCEPT !.razorpay_payment_id = "pay_1",
                          !.razorpay_order_id = 1,
                          !.razorpay_signature = Hmac(KeySecret, <<1, "pay_1">>),
                          !.orderId = 1]
           out == VerifyOutcome(products, orders, r)
       IN /\ req' = r
          /\ resp' = Guarded(Authenticate(token, dbUp).resp, out.resp)
          /\ orders' = out.orders
          /\ products' = out.products
  /\ phase' = "done"
  /\ UNCHANGED <<gatewayOrders, inflight>>

NextAuth ==
  \/ GetCheckoutPage
  \/ AdminRequest
  \/ CheckoutWithToken
  \/ VerifyWithToken
  \/ Finish

SpecAuth == Init /\ [][NextAuth]_vars

RequireAuthRoutes ==
  {"/cart/checkout", "/cart/create-razorpay-order", "/cart/verify-payment"}

RequireAdminRoutes == {"/admin"}

\* The answer of a gate to a request without a user.
NoUserAnswer(r) == IF JsonClient(r) THEN 401 ELSE 302

\* C13: a request reaches a handler behind requireAuth only if req.user is
\* set, and one behind requireAdmin only if req.user is set and has the role
\* admin; otherwise the handler is not invoked, nothing is written, and the
\* answer is 401 (no user, JSON client), a redirect to /auth/login (no user,
\* other client) or 403 (user without the admin role).  A missing, invalid or
\* unknown-user token leaves req.user null and authenticate sends no response.
C13_GatesBeforeHandlers ==
  [][ (\E route \in RequireAuthRoutes \cup RequireAdminRoutes : Handling(route))
        => LET r == req'
               admitted == /\ r.user # NoUser
                           /\ r.route \in RequireAdminRoutes
                                => UserDocs[r.user].role = "admin"
           IN /\ (r.token.kind # "signed" \/ r.token.userId \notin DOMAIN UserDocs)
                   => r.user = NoUser
              /\ r.user = NoUser =>
                   (resp'.status = NoUserAnswer(r) /\ resp'.message # "Server error")
              /\ (r.user # NoUser /\ ~admitted) => resp'.status = 403
              /\ ~admitted =>
                   /\ resp'.handled = ""
                   /\ orders' = orders
                   /\ products' = products
                   /\ gatewayOrders' = gatewayOrders
              /\ admitted =>
                   resp'.message \notin {"Authentication required", "/auth/login",
                                         "Admin access required"} ]_vars

\* A customer with a good token asked for the admin route from a browser and
\* was answered 403 without the handler running.
C13_Witness ==
  /\ Answered("/admin")
  /\ req.token.kind = "signed"
  /\ req.user \in Users
  /\ ~JsonClient(req)
  /\ resp.status = 403
  /\ resp.handled = ""

----------------------------------------------------------------------------
(* Catalog edits: a product document is changed and saved between the      *)
(* requests of the shop.                                                   *)

\* The schema's validators on the fields an edit changes: title required,
\* price required and not negative.
ProductValid(doc) == doc.title # "" /\ doc.price >= 0

\* product.save(): validation, then the pre-save hooks, then the write.
\* A document that fails validation is not written.
SaveProductDoc(prods, productId, doc) ==
  IF ProductValid(doc)
  THEN [products |-> [prods EXCEPT ![productId] = EnsurePrimaryImage(doc)],
        resp |-> [BlankResp EXCEPT !.status = 200, !.message = "saved"]]
  ELSE [products |-> prods, resp |-> ErrorResp(500, "ValidationError")]

EditableProducts == {"pA"}
EditTitles == {"A", "A (new)"}
EditPrices == {4000000, 4500000, -100000}
EditImages ==
  { << >>,
    << Image("a1.jpg", FALSE) >>,
    << Image("a1.jpg", FALSE), Image("a2.jpg", TRUE) >>,
    << Image("a1.jpg", FALSE), Image("a2.jpg", FALSE) >> }

\* A product is loaded, its title, price, active flag and images are set and
\* it is saved.
SaveProduct ==
  /\ phase = "idle"
  /\ \E productId \in EditableProducts, title \in EditTitles, price \in EditPrices,
        active \in BOOLEAN, images \in EditImages :
       LET doc == [products[productId] EXCEPT !.title = title, !.price = price,
                                              !.active = active, !.images = images]
           out == SaveProductDoc(products, productId, doc)
       IN /\ req' = [BlankReq EXCEPT !.route = "Product.save",
                                     !.productId = productId, !.doc = doc]
          /\ resp' = out.resp
          /\ products' = out.products
  /\ phase' = "done"
  /\ UNCHANGED <<orders, gatewayOrders, inflight>>

CatalogCarts ==
  { << CartItem("pA", "S", 1, 0) >>,
    << CartItem("pA", "S", 1, 0), CartItem("pC", "S", 1, 0) >> }

\* POST /cart/create-razorpay-order of user u1.
CatalogCheckout ==
  /\ phase = "idle"
  /\ Len(orders) < MaxOrders
  /\ \E cart \in CatalogCarts :
       LET r == [BlankReq EXCEPT !.route = "/cart/create-razorpay-order",
                                 !.user = "u1", !.xhr = TRUE, !.items = cart,
                                 !.shippingInfo = "address"]
           out == CheckoutOutcome(products, orders, gatewayOrders, r, TRUE)
       IN /\ req' = r
          /\ resp' = out.resp
          /\ orders' = out.orders
          /\ gatewayOrders' = out.gatewayOrders
  /\ phase' = "done"
  /\ UNCHANGED <<products, inflight>>

\* POST /cart/verify-payment of the owner of an order, after paying it.
CatalogVerify ==
  /\ phase = "idle"
  /\ \E o \in 1..Len(orders) :
       LET r == [BlankReq EXCEPT
                   !.route = "/cart/verify-payment",
                   !.user = orders[o].user, !.xhr = TRUE,
                   !.razorpay_payment_id = "pay_1",
                   !.razorpay_order_id = orders[o].paymentInfo.razorpayOrderId,
                   !.razorpay_signature =
                      Hmac(KeySecret, <<orders[o].paymentInfo.razorpayOrderId, "pay_1">>),
                   !.orderId = o]
           out == VerifyOutcome(products, orders, r)
       IN /\ req' = r
          /\ resp' = out.resp
          /\ orders' = out.orders
          /\ products' = out.products
  /\ phase' = "done"
  /\ UNCHANGED <<gatewayOrders, inflight>>

\* POST /webhooks/razorpay with the gateway's signature.
CatalogWebhook ==
  /\ phase = "idle"
  /\ \E body \in WebhookBodies(orders) :
       LET r == [BlankReq EXCEPT !.route = "/webhooks/razorpay",
                                 !.xRazorpaySignature = Hmac(WebhookSecret, body),
                                 !.body = body]
           out == WebhookOutcome(products, orders, r)
       IN /\ req' = r
          /\ resp' = out.resp
          /\ orders' = out.orders
          /\ products' = out.products
  /\ phase' = "done"
  /\ UNCHANGED <<gatewayOrders, inflight>>

NextCatalog ==
  \/ SaveProduct
  \/ CatalogCheckout
  \/ CatalogVerify
  \/ CatalogWebhook
  \/ Finish

SpecCatalog == Init /\ [][NextCatalog]_vars

SomePrimary(images) == \E i \in 1..Len(images) : images[i].isPrimary

\* The step saved the product document req'.doc.
ProductSaved == Handling("Product.save") /\ resp'.status = 200

----------------------------------------------------------------------------
(* Orders and later catalog edits *)

\* What an order keeps of the catalog and of the pricing at checkout.
OrderSnapshot(order) ==
  [items |-> [i \in 1..Len(order.items) |->
                [title |-> order.items[i].title, price |-> order.items[i].price,
                 image |-> order.items[i].image]],
   subtotal |-> order.subtotal, tax |-> order.tax,
   shipping |-> order.shipping, total |-> order.total]

\* The catalog with every product's title, price, images and active flag as
\* they were at the start, and its variants as they are now.
BeforeEdits(prods) ==
  [p \in DOMAIN prods |-> [InitialProducts[p] EXCEPT !.variants = prods[p].variants]]

\* The stock of every variant of every product.
Stocks(prods) ==
  [p \in DOMAIN prods |->
     [v \in 1..Len(prods[p].variants) |-> prods[p].variants[v].stock]]

\* C15: after an Order has been created, no step changes its item titles, item
\* prices, subtotal, tax, shipping and total, whatever has been done to the
\* title, price, images and active flag of its products; and a payment
\* confirmation does to the orders and to the stocks what it would do had the
\* products never been edited, and changes nothing of a product but stock.
C15_OrdersKeepTheirSnapshot ==
  [][ /\ \A o \in 1..Len(orders) :
           /\ o <= Len(orders')
           /\ OrderSnapshot(orders'[o]) = OrderSnapshot(orders[o])
      /\ (Handling("/cart/verify-payment") \/ Handling("/webhooks/razorpay")) =>
           LET asNow == IF req'.route = "/cart/verify-payment"
                        THEN VerifyOutcome(products, orders, req')
                        ELSE WebhookOutcome(products, orders, req')
               unedited == IF req'.route = "/cart/verify-payment"
                           THEN VerifyOutcome(BeforeEdits(products), orders, req')
                           ELSE WebhookOutcome(BeforeEdits(products), orders, req')
           IN /\ orders' = unedited.orders
              /\ resp' = unedited.resp
              /\ Stocks(products') = Stocks(unedited.products)
              /\ \A p \in DOMAIN products :
                   [products'[p] EXCEPT !.variants = products[p].variants] = products[p] ]_vars

\* The owner's payment of an order of product pA was confirmed and one unit
\* taken from the stock after the product had been renamed, repriced and
\* deactivated; the order has the title and price of the time of checkout.
C15_Witness ==
  /\ Answered("/cart/verify-payment")
  /\ resp.status = 200
  /\ orders[req.orderId].status = "confirmed"
  /\ orders[req.orderId].items[1].product = "pA"
  /\ orders[req.orderId].items[1].title # products["pA"].title
  /\ orders[req.orderId].items[1].price # products["pA"].price
  /\ orders[req.orderId].items[1].image # PrimaryImageUrl(products["pA"].images)
  /\ ~products["pA"].active
  /\ products["pA"].variants[1].stock = InitialProducts["pA"].variants[1].stock - 1

----------------------------------------------------------------------------
(* Repeated confirmation *)

\* The step answers a confirmation for order o that runs the stock loop: a
\* validly signed payment.captured webhook, or the owner's POST
\* /cart/verify-payment with a matching signature.
StockConfirmationFor(o) ==
  \/ /\ Handling("/webhooks/razorpay")
     /\ req'.xRazorpaySignature = Hmac(WebhookSecret, req'.body)
     /\ req'.body.event = "payment.captured"
     /\ req'.body.orderId = o
  \/ /\ Handling("/cart/verify-payment")
     /\ OwnerVerifies(orders, req')
     /\ req'.orderId = o

\* Every variant holds at least times the units the items ask of it.
StockSuffices(prods, items, times) ==
  \A p \in DOMAIN prods : \A v \in 1..Len(prods[p].variants) :
    prods[p].variants[v].stock >=
      times * QuantityOf(items, p, prods[p].variants[v].size, prods[p].variants[v].design)

\* Every variant's stock in after is its stock in before less twice the units
\* the items ask of it.
StockDecrementedTwice(before, after, items) ==
  \A p \in DOMAIN before : \A v \in 1..Len(before[p].variants) :
    after[p].variants[v].stock =
      before[p].variants[v].stock
        - 2 * QuantityOf(items, p, before[p].variants[v].size, before[p].variants[v].design)

\* C16: payment confirmation is not idempotent.  When a confirmation is
\* processed for an order that is already confirmed and the stock suffices,
\* the stock of each item's variant is decremented again; after a first
\* confirmation that took the items from the initial stock it ends at the
\* initial stock minus twice the item quantity.
C16_SecondConfirmationDecrementsAgain ==
  [][ \A o \in 1..Len(orders) :
        ( /\ StockConfirmationFor(o)
          /\ orders[o].status = "confirmed"
          /\ StockSuffices(products, orders[o].items, 1) )
        => /\ orders'[o].status = "confirmed"
           /\ StockDecremented(products, products', orders[o].items)
           /\ StockDecremented(InitialProducts, products, orders[o].items)
                => StockDecrementedTwice(InitialProducts, products', orders[o].items) ]_vars

\* The payment.captured webhook of an order of one unit of pA (S, classic) was
\* delivered to the confirmed order again and the stock of 2 is down to 0.
C16_Witness ==
  /\ Answered("/webhooks/razorpay")
  /\ req.xRazorpaySignature = Hmac(WebhookSecret, req.body)
  /\ req.body.event = "payment.captured"
  /\ req.body.orderId = 1
  /\ Len(orders) = 1
  /\ orders[1].status = "confirmed"
  /\ Len(orders[1].items) = 1
  /\ orders[1].items[1].product = "pA"
  /\ orders[1].items[1].size = "S"
  /\ orders[1].items[1].quantity = 1
  /\ StockDecrementedTwice(InitialProducts, products, orders[1].items)

----------------------------------------------------------------------------
(* Confirmation handlers running concurrently.  A handler gives way to the *)
(* other at every await; between two awaits it runs alone.  Each handler   *)
(* answers one request: the owner's POST /cart/verify-payment with the     *)
(* gateway's signature, or a payment.captured webhook signed by the        *)
(* gateway, for one of the two pending orders in the store.                *)

Handlers == {1, 2}

\* A handler's local variables: the order it works on, the index of the item
\* of the for loop, the product document findById returned (with the stock
\* already decremented once the handler waits for save), the variant found,
\* the stocks it has read so far, and the status it answered with.
IdleHandler ==
  [kind |-> "none", pc |-> "idle", orderId |-> 0, item |-> 0,
   product |-> BlankProduct, variant |-> 0, reads |-> <<>>, status |-> 0]

RaceCarts ==
  { << CartItem("pA", "S", 1, 0) >>,
    << CartItem("pC", "S", 1, 0) >>,
    << CartItem("pA", "S", 1, 0), CartItem("pC", "S", 1, 0) >> }

RaceRequest(cart) ==
  [BlankReq EXCEPT !.route = "/cart/create-razorpay-order", !.user = "u1",
                   !.xhr = TRUE, !.items = cart, !.shippingInfo = "address"]

\* The store after the checkouts of two carts, answered one after the other.
TwoOrders(first, second) ==
  LET one == CheckoutOutcome(InitialProducts, <<>>, <<>>, RaceRequest(first), TRUE)
  IN CheckoutOutcome(InitialProducts, one.orders, one.gatewayOrders,
                     RaceRequest(second), TRUE)

InitRace ==
  /\ products = InitialProducts
  /\ \E first \in RaceCarts, second \in RaceCarts :
       /\ orders = TwoOrders(first, second).orders
       /\ gatewayOrders = TwoOrders(first, second).gatewayOrders
  /\ phase = "idle"
  /\ req = BlankReq
  /\ resp = BlankResp
  /\ inflight = [h \in Handlers |-> IdleHandler]

\* handlePaymentCaptured: the fields set on the order before order.save().
CapturedConfirm(order, paymentId) ==
  [order EXCEPT !.paymentInfo.status = "paid",
                !.paymentInfo.razorpayPaymentId = paymentId,
                !.paymentInfo.paidAt = TRUE,
                !.status = "confirmed"]

\* Mutation of WriteStock: the quantity is taken from the stock the store
\* holds at the time of the write.
WriteStockFromStore(prods, productId, v, local, quantity) ==
  [prods EXCEPT ![productId].variants[v].stock = @ - quantity]

\* The write of product.save() after variant.stock -= item.quantity: the one
\* modified path, variants.<v>.stock, is set to the value of the local
\* document, and the pre-save hook has run on what is stored.
WriteStock(prods, productId, v, local, quantity) ==
  [prods EXCEPT ![productId] =
     EnsurePrimaryImage([@ EXCEPT !.variants[v].stock = local.variants[v].stock])]

\* Mutation of CatchBlock: the order is put back to pending.
CatchBlockRollsBack(ords, o) == [ords EXCEPT ![o].status = "pending"]

\* What the catch block does to the order collection: nothing.
CatchBlock(ords, o) == ords

\* The status a handler's request is answered with when an awaited call
\* rejects: 500 from the catch block of verify-payment; 200 for the webhook,
\* whose event handler catches and logs the error.
StatusAfterError(kind) == IF kind = "verify-payment" THEN 500 ELSE 200

\* The request arrives and passes the checks made before the first await.
BeginConfirmation(h) ==
  /\ inflight[h].pc = "idle"
  /\ \E kind \in {"verify-payment", "payment.captured"}, o \in 1..Len(orders) :
       inflight' = [inflight EXCEPT ![h] =
                      [IdleHandler EXCEPT !.kind = kind, !.pc = "findOrder", !.orderId = o]]
  /\ UNCHANGED <<products, orders, gatewayOrders, phase, req, resp>>

\* await Order.findById(orderId)
FindOrder(h) ==
  /\ inflight[h].pc = "findOrder"
  /\ inflight' = [inflight EXCEPT ![h].pc = "saveOrder"]
  /\ UNCHANGED <<products, orders, gatewayOrders, phase, req, resp>>

\* await order.save(), with the status fields set
SaveOrder(h) ==
  /\ inflight[h].pc = "saveOrder"
  /\ orders' = [orders EXCEPT ![inflight[h].orderId] =
                  IF inflight[h].kind = "verify-payment"
                  THEN VerifyConfirm(@, "pay_1") ELSE CapturedConfirm(@, "pay_1")]
  /\ inflight' = [inflight EXCEPT ![h].pc = "findProduct", ![h].item = 1]
  /\ UNCHANGED <<products, gatewayOrders, phase, req, resp>>

\* await Product.findById(item.product), then up to the next await: the
\* variant is looked up and its stock decremented on the local document, or
\* the item is passed over.  Past the last item the loop ends.
FindProduct(h) ==
  /\ inflight[h].pc = "findProduct"
  /\ LET me == inflight[h]
         items == orders[me.orderId].items
     IN IF me.item > Len(items)
        THEN inflight' = [inflight EXCEPT ![h].pc = "respond"]
        ELSE
          LET item == items[me.item]
              local == products[item.product]
              v == FindVariant(local.variants, item.size, item.design)
              takes == IF me.kind = "verify-payment" THEN v # 0
                       ELSE v # 0 /\ local.variants[v].stock >= item.quantity
          IN IF takes
             THEN inflight' = [inflight EXCEPT
                    ![h].pc = "saveProduct",
                    ![h].variant = v,
                    ![h].product = [local EXCEPT !.variants[v].stock = @ - item.quantity],
                    ![h].reads = Append(@, [product |-> item.product, variant |-> v,
                                            stock |-> local.variants[v].stock,
                                            quantity |-> item.quantity])]
             ELSE inflight' = [inflight EXCEPT ![h].item = @ + 1]
  /\ UNCHANGED <<products, orders, gatewayOrders, phase, req, resp>>

\* Mutation of SaveProductStock: the stock has no min validator, and the
\* local stock is written whatever it is.
SaveProductStockUnvalidated(h) ==
  /\ inflight[h].pc = "saveProduct"
  /\ LET me == inflight[h]
         item == orders[me.orderId].items[me.item]
     IN /\ products' = WriteStock(products, item.product, me.variant,
                                  me.product, item.quantity)
        /\ inflight' = [inflight EXCEPT ![h].pc = "findProduct", ![h].item = @ + 1]
        /\ UNCHANGED orders
  /\ UNCHANGED <<gatewayOrders, phase, req, resp>>

\* await product.save(): validation refuses a negative stock, and the error
\* ends the handler; otherwise the stock is written.
SaveProductStock(h) ==
  /\ inflight[h].pc = "saveProduct"
  /\ LET me == inflight[h]
         item == orders[me.orderId].items[me.item]
     IN IF me.product.variants[me.variant].stock < 0
        THEN /\ inflight' = [inflight EXCEPT ![h].pc = "failed",
                                             ![h].status = StatusAfterError(me.kind)]
             /\ orders' = CatchBlock(orders, me.orderId)
             /\ UNCHANGED products
        ELSE /\ products' = WriteStock(products, item.product, me.variant,
                                       me.product, item.quantity)
             /\ inflight' = [inflight EXCEPT ![h].pc = "findProduct", ![h].item = @ + 1]
             /\ UNCHANGED orders
  /\ UNCHANGED <<gatewayOrders, phase, req, resp>>

\* res.json(...)
Respond(h) ==
  /\ inflight[h].pc = "respond"
  /\ inflight' = [inflight EXCEPT ![h].pc = "done", ![h].status = 200]
  /\ UNCHANGED <<products, orders, gatewayOrders, phase, req, resp>>

AwaitingDatabase == {"findOrder", "saveOrder", "findProduct", "saveProduct"}

\* The database call the handler waits for rejects: nothing is read or
\* written, and the catch block ends the handler.
DatabaseError(h) ==
  /\ inflight[h].pc \in AwaitingDatabase
  /\ inflight' = [inflight EXCEPT ![h].pc = "failed",
                                  ![h].status = StatusAfterError(inflight[h].kind)]
  /\ orders' = CatchBlock(orders, inflight[h].orderId)
  /\ UNCHANGED <<products, gatewayOrders, phase, req, resp>>

\* The server process stops: every handler under way ends where it is, with
\* no response.
Crash ==
  /\ \E h \in Handlers : inflight[h].pc \in AwaitingDatabase \cup {"respond"}
  /\ inflight' = [h \in Handlers |->
                    IF inflight[h].pc \in AwaitingDatabase \cup {"respond"}
                    THEN [inflight[h] EXCEPT !.pc = "crashed"]
                    ELSE inflight[h]]
  /\ UNCHANGED <<products, orders, gatewayOrders, phase, req, resp>>

NextRace ==
  \/ \E h \in Handlers : BeginConfirmation(h)
  \/ \E h \in Handlers : FindOrder(h)
  \/ \E h \in Handlers : SaveOrder(h)
  \/ \E h \in Handlers : FindProduct(h)
  \/ \E h \in Handlers : SaveProductStock(h)
  \/ \E h \in Handlers : Respond(h)
  \/ \E h \in Handlers : DatabaseError(h)
  \/ Crash

SpecRace == InitRace /\ [][NextRace]_vars

\* Reads i of handler a and j of handler b are of the same variant of the same
\* product and returned the same stock: no save came between the two reads.
SameRead(a, i, b, j) ==
  /\ inflight[a].reads[i].product = inflight[b].reads[j].product
  /\ inflight[a].reads[i].variant = inflight[b].reads[j].variant
  /\ inflight[a].reads[i].stock = inflight[b].reads[j].stock

\* C17: when two confirmation handlers, for the same order or for two orders
\* on the same variant, both read the Product before either saves it, each
\* writes the stock it read less its own quantity, and once both are done the
\* stock is the value one of them wrote: the stock read less one of the two
\* quantities, not less both.
C17_LostUpdate ==
  [][ /\ \A h \in Handlers :
           (inflight[h].pc = "saveProduct" /\ inflight'[h].pc = "findProduct") =>
             LET read == inflight[h].reads[Len(inflight[h].reads)]
             IN products'[read.product].variants[read.variant].stock
                  = read.stock - read.quantity
      /\ \A a \in Handlers, b \in Handlers :
           (a # b /\ inflight'[a].pc = "done" /\ inflight'[b].pc = "done") =>
             \A i \in 1..Len(inflight'[a].reads), j \in 1..Len(inflight'[b].reads) :
               (/\ inflight'[a].reads[i].product = inflight'[b].reads[j].product
                /\ inflight'[a].reads[i].variant = inflight'[b].reads[j].variant
                /\ inflight'[a].reads[i].stock = inflight'[b].reads[j].stock) =>
                 LET ra == inflight'[a].reads[i]
                     rb == inflight'[b].reads[j]
                     stock == products'[ra.product].variants[ra.variant].stock
                 IN /\ stock \in {ra.stock - ra.quantity, rb.stock - rb.quantity}
                    /\ stock # ra.stock - ra.quantity - rb.quantity ]_vars

\* A verify-payment and a payment.captured handler for two orders of one unit
\* of pA (S, classic) each have both answered 200 after both reading a stock
\* of 2, and the stock is 1.
C17_Witness ==
  /\ inflight[1].pc = "done" /\ inflight[2].pc = "done"
  /\ inflight[1].kind = "verify-payment" /\ inflight[2].kind = "payment.captured"
  /\ inflight[1].orderId # inflight[2].orderId
  /\ inflight[1].status = 200 /\ inflight[2].status = 200
  /\ Len(inflight[1].reads) = 1 /\ Len(inflight[2].reads) = 1
  /\ inflight[1].reads[1].product = "pA" /\ inflight[2].reads[1].product = "pA"
  /\ SameRead(1, 1, 2, 1)
  /\ inflight[1].reads[1].stock = 2
  /\ products["pA"].variants[1].stock = 1
  /\ orders[1].status = "confirmed" /\ orders[2].status = "confirmed"

\* The handler has ended: it answered, or an error or the crash stopped it.
Ended(h) == inflight[h].pc \in {"done", "failed", "crashed"}

\* C19: order confirmation and stock decrements are not atomic.  In both
\* paths a stock is written only by a handler that has already saved its
\* order as confirmed, one item per product save; an error or a crash after
\* the order save or between two item saves ends the handler where it is,
\* with the order confirmed and the remaining stocks untouched; no step puts
\* a confirmed order back to pending, and a handler that has ended does
\* nothing more.
C19_ConfirmationNotAtomic ==
  [][ /\ products' # products =>
           \E h \in Handlers :
             /\ inflight[h].pc = "saveProduct"
             /\ inflight'[h].item = inflight[h].item + 1
             /\ orders[inflight[h].orderId].status = "confirmed"
             /\ LET item == orders[inflight[h].orderId].items[inflight[h].item]
                IN \A p \in DOMAIN products :
                     p # item.product => products'[p] = products[p]
      /\ \A o \in 1..Len(orders) :
           orders[o].status = "confirmed" => orders'[o].status = "confirmed"
      /\ \A h \in Handlers :
           /\ Ended(h) => inflight'[h] = inflight[h]
           /\ (inflight[h].pc \in AwaitingDatabase /\ inflight'[h].pc \in {"failed", "crashed"})
                => /\ products' = products
                   /\ orders' = orders
                   /\ inflight[h].pc \in {"findProduct", "saveProduct"}
                        => orders'[inflight[h].orderId].status = "confirmed" ]_vars

\* The verify-payment handler of an order of pA and pC was stopped by an error
\* between the two item saves: the order is confirmed, it answered 500, one
\* unit of pA has left the stock and the unit of pC has not, and no other
\* handler is under way.
C19_Witness ==
  /\ inflight[1].kind = "verify-payment"
  /\ inflight[1].pc = "failed"
  /\ inflight[1].status = 500
  /\ inflight[1].item = 2
  /\ inflight[2].pc = "idle"
  /\ Len(orders[inflight[1].orderId].items) = 2
  /\ orders[inflight[1].orderId].status = "confirmed"
  /\ products["pA"].variants[1].stock = InitialProducts["pA"].variants[1].stock - 1
  /\ products["pC"].variants[1].stock = InitialProducts["pC"].variants[1].stock


----------------------------------------------------------------------------
(* Two checkouts under way at once: the order number *)

\* Orders of today already in the store when the two requests arrive.
NumberStarts == {0, 1}

\* A checkout handler's local variables: the Order document it builds, the
\* position findOne returned in the pre-save hook (0 for null), the id the
\* document got when it was inserted (0 before), the id of the gateway order,
\* and the status it answered with.
IdleCheckout ==
  [kind |-> "none", pc |-> "idle", items |-> <<>>,
   order |-> NewOrder(NoUser, BlankResp, ""),
   lastOrder |-> 0, orderId |-> 0, razorpayOrderId |-> 0, status |-> 0]

InitNumbers ==
  /\ products = InitialProducts
  /\ \E start \in NumberStarts :
       LET store == DayStore(start) IN
       /\ orders = store.orders
       /\ gatewayOrders = store.gatewayOrders
  /\ phase = "idle"
  /\ req = BlankReq
  /\ resp = BlankResp
  /\ inflight = [h \in Handlers |-> IdleCheckout]

\* The request arrives, passes requireAuth and the validators, and the
\* handler awaits the fetch of /cart/validate.
BeginCheckout(h) ==
  /\ inflight[h].pc = "idle"
  /\ \E user \in Users, cart \in RaceCarts :
       inflight' = [inflight EXCEPT ![h] =
                      [IdleCheckout EXCEPT !.kind = "checkout", !.pc = "validate",
                                           !.items = cart,
                                           !.order.user = user]]
  /\ UNCHANGED <<products, orders, gatewayOrders, phase, req, resp>>

\* /cart/validate answers; new Order({...}) is built and order.save() called.
ValidateForCheckout(h) ==
  /\ inflight[h].pc = "validate"
  /\ LET validatedCart == ValidateResponse(products, inflight[h].items) IN
     IF validatedCart.status # 200
     THEN inflight' = [inflight EXCEPT ![h].pc = "done", ![h].status = 400]
     ELSE inflight' = [inflight EXCEPT
            ![h].pc = "findLast",
            ![h].order = NewOrder(inflight[h].order.user, validatedCart, "address")]
  /\ UNCHANGED <<products, orders, gatewayOrders, phase, req, resp>>

\* pre('save') of the new document: await findOne(...).sort({createdAt: -1}),
\* then the order number is computed from what was found.
FindLastOrder(h) ==
  /\ inflight[h].pc = "findLast"
  /\ inflight' = [inflight EXCEPT
       ![h].pc = "insert",
       ![h].lastOrder = LatestOfToday(orders, Len(orders)),
       ![h].order.orderNumber = NextOrderNumber(orders)]
  /\ UNCHANGED <<products, orders, gatewayOrders, phase, req, resp>>

\* The insert of order.save(): the unique index refuses a number the
\* collection already holds, and the catch block answers 500.
InsertOrder(h) ==
  /\ inflight[h].pc = "insert"
  /\ IF DuplicateOrderNumber(orders, inflight[h].order.orderNumber)
     THEN /\ inflight' = [inflight EXCEPT ![h].pc = "failed", ![h].status = 500]
          /\ UNCHANGED orders
     ELSE /\ orders' = Append(orders, inflight[h].order)
          /\ inflight' = [inflight EXCEPT ![h].pc = "gateway",
                                          ![h].orderId = Len(orders) + 1]
  /\ UNCHANGED <<products, gatewayOrders, phase, req, resp>>

\* await razorpay.orders.create({...}): the gateway answers, or the call
\* rejects and the catch block answers 500.
CreateGatewayOrder(h) ==
  /\ inflight[h].pc = "gateway"
  /\ \E gatewayUp \in BOOLEAN :
       IF gatewayUp
       THEN /\ gatewayOrders' = Append(gatewayOrders,
                                  GatewayOrder(inflight[h].order, inflight[h].orderId))
            /\ inflight' = [inflight EXCEPT ![h].pc = "saveGatewayId",
                                            ![h].razorpayOrderId = Len(gatewayOrders) + 1]
       ELSE /\ inflight' = [inflight EXCEPT ![h].pc = "failed", ![h].status = 500]
            /\ UNCHANGED gatewayOrders
  /\ UNCHANGED <<products, orders, phase, req, resp>>

\* order.paymentInfo.razorpayOrderId = razorpayOrder.id; await order.save()
SaveGatewayId(h) ==
  /\ inflight[h].pc = "saveGatewayId"
  /\ orders' = [orders EXCEPT ![inflight[h].orderId].paymentInfo.razorpayOrderId =
                                inflight[h].razorpayOrderId]
  /\ inflight' = [inflight EXCEPT ![h].pc = "respond"]
  /\ UNCHANGED <<products, gatewayOrders, phase, req, resp>>

\* res.json({razorpayOrderId, orderId, ...})
RespondCheckout(h) ==
  /\ inflight[h].pc = "respond"
  /\ inflight' = [inflight EXCEPT ![h].pc = "done", ![h].status = 200]
  /\ UNCHANGED <<products, orders, gatewayOrders, phase, req, resp>>

NextNumbers ==
  \/ \E h \in Handlers : BeginCheckout(h)
  \/ \E h \in Handlers : ValidateForCheckout(h)
  \/ \E h \in Handlers : FindLastOrder(h)
  \/ \E h \in Handlers : InsertOrder(h)
  \/ \E h \in Handlers : CreateGatewayOrder(h)
  \/ \E h \in Handlers : SaveGatewayId(h)
  \/ \E h \in Handlers : RespondCheckout(h)

SpecNumbers == InitNumbers /\ [][NextNumbers]_vars

\* The handler has run the query of the pre-save hook.
Queried(h) == inflight[h].pc \in {"insert", "gateway", "saveGatewayId", "respond", "done", "failed"}

\* The handler's insert has been tried.
InsertTried(h) == Queried(h) /\ inflight[h].pc # "insert"

\* C18: two saves of new orders that both ran the query of the pre-save hook
\* before either document was inserted computed the same order number; the
\* collection never holds two orders with one orderNumber; and of two saves
\* that computed the same number exactly one inserted its document, the
\* other one's request being answered 500.
C18_OrderNumberRace ==
  /\ \A i, j \in 1..Len(orders) :
       orders[i].orderNumber = orders[j].orderNumber => i = j
  /\ \A h, g \in Handlers :
       h # g =>
         /\ (inflight[h].pc = "insert" /\ inflight[g].pc = "insert")
              => inflight[h].order.orderNumber = inflight[g].order.orderNumber
         /\ (Queried(h) /\ Queried(g) /\ inflight[h].lastOrder = inflight[g].lastOrder)
              => inflight[h].order.orderNumber = inflight[g].order.orderNumber
         /\ (InsertTried(h) /\ InsertTried(g)
             /\ inflight[h].order.orderNumber = inflight[g].order.orderNumber)
              => \E won, lost \in Handlers :
                   /\ won # lost
                   /\ inflight[won].orderId > 0
                   /\ orders[inflight[won].orderId].orderNumber = inflight[won].order.orderNumber
                   /\ inflight[lost].orderId = 0
                   /\ inflight[lost].pc = "failed"
                   /\ inflight[lost].status = 500

\* Both checkouts found the same latest order of today and computed the
\* number after it; one order was inserted and its request answered 200, the
\* other request was answered 500 and left no order.
C18_Witness ==
  /\ inflight[1].pc = "done" /\ inflight[1].status = 200
  /\ inflight[2].pc = "failed" /\ inflight[2].status = 500
  /\ inflight[1].lastOrder = inflight[2].lastOrder
  /\ inflight[1].lastOrder > 0
  /\ inflight[1].order.orderNumber = inflight[2].order.orderNumber
  /\ inflight[1].orderId > 0
  /\ inflight[2].orderId = 0
  /\ Len(orders) = 3


----------------------------------------------------------------------------
(* The webhook route with the errors it can meet *)

\* What JSON.parse(body) gives: a SyntaxError, null, or an event object.
ParseResults == {"SyntaxError", "null", "object"}

\* How much of event.payload.<payment|order>.entity the event carries:
\* no payload, a payload without the payment or order object, that object
\* without entity, or the entity.
PayloadShapes == {"absent", "noObject", "noEntity", "entity"}

\* The awaited database call of an event handler that rejects, if one does;
\* item is the position in order.items of the product call.
NoRejection == [call |-> "none", item |-> 0]

Rejections ==
  { NoRejection, [call |-> "Order.find", item |-> 0], [call |-> "order.save", item |-> 0] }
  \cup { [call |-> c, item |-> i] : c \in {"Product.findById", "product.save"},
                                    i \in 1..MaxItems }

HandlerOf(event) ==
  IF event = "payment.captured" THEN "handlePaymentCaptured"
  ELSE IF event = "payment.failed" THEN "handlePaymentFailed"
  ELSE IF event = "order.paid" THEN "handleOrderPaid"
  ELSE ""

\* What an event handler leaves behind: the store, and the line it wrote
\* with console.error ("" when it wrote none).
HandlerResult(prods, ords, logged) ==
  [products |-> prods, orders |-> ords, logged |-> logged]

\* handlePaymentCaptured(payment) where payment may be undefined and an
\* awaited call may reject: the handler stops at the throw with what it has
\* written so far, and its catch block writes the error.
HandlePaymentCapturedOrThrow(prods, ords, body, rejects) ==
  LET thrown == "Error handling payment captured:"
      full == HandlePaymentCaptured(prods, ords, body)
  IN
  IF body.payload = "noEntity" THEN HandlerResult(prods, ords, thrown)
  ELSE IF body.orderId = 0
  THEN HandlerResult(prods, ords, "Order ID not found in payment notes:")
  ELSE IF rejects.call = "Order.find" THEN HandlerResult(prods, ords, thrown)
  ELSE IF body.orderId \notin 1..Len(ords)
  THEN HandlerResult(prods, ords, "Order not found for payment:")
  ELSE IF rejects.call = "order.save" THEN HandlerResult(prods, ords, thrown)
  ELSE
    LET items == full.orders[body.orderId].items
        before == CapturedStockLoop(prods, SubSeq(items, 1, rejects.item - 1), 1)
        saves == CapturedStockLoop(before, <<items[rejects.item]>>, 1) # before
    IN IF /\ rejects.call \in {"Product.findById", "product.save"}
          /\ rejects.item <= Len(items)
          /\ rejects.call = "product.save" => saves
       THEN HandlerResult(before, full.orders, thrown)
       ELSE HandlerResult(full.products, full.orders, "")

\* handlePaymentFailed(payment), likewise.
HandlePaymentFailedOrThrow(prods, ords, body, rejects) ==
  LET thrown == "Error handling payment failed:"
      full == HandlePaymentFailed(prods, ords, body)
  IN
  IF body.payload = "noEntity" THEN HandlerResult(prods, ords, thrown)
  ELSE IF body.orderId = 0
  THEN HandlerResult(prods, ords, "Order ID not found in payment notes:")
  ELSE IF rejects.call = "Order.find" THEN HandlerResult(prods, ords, thrown)
  ELSE IF body.orderId \notin 1..Len(ords)
  THEN HandlerResult(prods, ords, "Order not found for payment:")
  ELSE IF rejects.call = "order.save" THEN HandlerResult(prods, ords, thrown)
  ELSE HandlerResult(full.products, full.orders, "")

\* handleOrderPaid(razorpayOrder), likewise; razorpayOrder.id is read inside
\* the try block.
HandleOrderPaidOrThrow(prods, ords, body, rejects) ==
  LET thrown == "Error handling order paid:"
      full == HandleOrderPaid(prods, ords, body)
  IN
  IF body.payload = "noEntity" THEN HandlerResult(prods, ords, thrown)
  ELSE IF rejects.call = "Order.find" THEN HandlerResult(prods, ords, thrown)
  ELSE IF \A i \in 1..Len(ords) : ords[i].paymentInfo.razorpayOrderId # body.rzpOrderId
  THEN HandlerResult(prods, ords, "Order not found for Razorpay order:")
  ELSE IF rejects.call = "order.save" THEN HandlerResult(prods, ords, thrown)
  ELSE HandlerResult(full.products, full.orders, "")

\* Mutation of AfterHandler: what the handler caught is thrown on to the route.
AfterHandlerRethrown(result, handler) ==
  [products |-> result.products, orders |-> result.orders,
   resp |-> IF result.logged \in {"Error handling payment captured:",
                                  "Error handling payment failed:",
                                  "Error handling order paid:"}
            THEN [ErrorResp(500, "Webhook processing failed") EXCEPT
                    !.handled = handler,
                    !.log = <<result.logged, "Razorpay webhook processing error:">>]
            ELSE [BlankResp EXCEPT !.status = 200, !.message = "ok",
                                   !.handled = handler,
                                   !.log = IF result.logged = "" THEN <<>>
                                           ELSE <<result.logged>>]]

\* The awaited handler has returned, whatever it met: res.json({status: 'ok'}).
AfterHandler(result, handler) ==
  [products |-> result.products, orders |-> result.orders,
   resp |-> [BlankResp EXCEPT !.status = 200, !.message = "ok",
                              !.handled = handler,
                              !.log = IF result.logged = "" THEN <<>>
                                      ELSE <<result.logged>>]]

\* The route on any body: signature check on the raw body, JSON.parse, the
\* switch, the entity handed to the handler, and the catch block of the route.
WebhookDeliveryOutcome(prods, ords, r, rejects) ==
  LET processingFailed ==
        [products |-> prods, orders |-> ords,
         resp |-> [ErrorResp(500, "Webhook processing failed") EXCEPT
                     !.log = <<"Razorpay webhook processing error:">>]]
      handler == HandlerOf(r.body.event)
  IN
  IF ~WebhookSignatureOk(r)
  THEN [products |-> prods, orders |-> ords,
        resp |-> ErrorResp(400, "Webhook signature verification failed")]
  ELSE IF r.body.parse \in {"SyntaxError", "null"} THEN processingFailed
  ELSE IF handler = ""
  THEN [products |-> prods, orders |-> ords,
        resp |-> [BlankResp EXCEPT !.status = 200, !.message = "ok"]]
  ELSE IF r.body.payload \in {"absent", "noObject"} THEN processingFailed
  ELSE IF handler = "handlePaymentCaptured"
  THEN AfterHandler(HandlePaymentCapturedOrThrow(prods, ords, r.body, rejects), handler)
  ELSE IF handler = "handlePaymentFailed"
  THEN AfterHandler(HandlePaymentFailedOrThrow(prods, ords, r.body, rejects), handler)
  ELSE AfterHandler(HandleOrderPaidOrThrow(prods, ords, r.body, rejects), handler)

\* The raw bodies sent to the route: text that is no JSON, the text null,
\* and events with more or less of their payload.
RawBodies(ords) ==
  { [event |-> "", orderId |-> 0, paymentId |-> "", rzpOrderId |-> 0,
     parse |-> p, payload |-> "absent"] : p \in {"SyntaxError", "null"} }
  \cup
  { [event |-> b.event, orderId |-> b.orderId, paymentId |-> b.paymentId,
     rzpOrderId |-> b.rzpOrderId, parse |-> "object", payload |-> "entity"] :
      b \in WebhookBodies(ords) }
  \cup
  { [event |-> e, orderId |-> 0, paymentId |-> "", rzpOrderId |-> 0,
     parse |-> "object", payload |-> s] :
      e \in PaymentEvents \cup {"order.paid"},
      s \in PayloadShapes \ {"entity"} }

WebhookDelivery ==
  /\ phase = "idle"
  /\ \E body \in RawBodies(orders), rejects \in Rejections :
       \E signature \in { <<>>, Hmac(WebhookSecret, body), Hmac("guess", body) } :
         LET r == [BlankReq EXCEPT !.route = "/webhooks/razorpay",
                                   !.xRazorpaySignature = signature,
                                   !.body = body]
             out == WebhookDeliveryOutcome(products, orders, r, rejects)
         IN /\ req' = r
            /\ resp' = out.resp
            /\ orders' = out.orders
            /\ products' = out.products
  /\ phase' = "done"
  /\ UNCHANGED <<gatewayOrders, inflight>>

NextWebhook ==
  \/ WebhookDelivery
  \/ Finish

SpecWebhook == InitRace /\ [][NextWebhook]_vars

\* console.error lines of the catch blocks of the three event handlers.
CaughtInHandler ==
  {"Error handling payment captured:", "Error handling payment failed:",
   "Error handling order paid:"}

\* console.error lines an event handler writes before it returns early.
ReturnedEarly ==
  {"Order ID not found in payment notes:", "Order not found for payment:",
   "Order not found for Razorpay order:"}

SignedDelivery ==
  Handling("/webhooks/razorpay") /\ WebhookSignatureOk(req')

\* The event names one of the three cases of the switch.
HandledEvent(body) == body.parse = "object" /\ HandlerOf(body.event) # ""

\* C20: for a validly signed webhook, whatever an event handler meets
\* (no notes.orderId, no such order, a rejected find or save) is caught or
\* returned from inside the handler and the request is answered 200
\* {status: ok}; a 500 is answered only for an error raised outside the
\* handlers (a body that does not parse to an event, or a payload without the
\* payment or order object), and then nothing was written; an event type
\* with no case is answered 200 and nothing is written; and the store changes
\* in no step but the handling of a request, so a delivery is never taken up
\* again by the server.
C20_WebhookErrorsSwallowed ==
  [][ /\ SignedDelivery =>
           /\ resp'.status \in {200, 500}
           /\ (\E i \in 1..Len(resp'.log) : resp'.log[i] \in CaughtInHandler \cup ReturnedEarly)
                => resp'.status = 200 /\ resp'.message = "ok"
           /\ resp'.handled # "" => resp'.status = 200 /\ resp'.message = "ok"
           /\ resp'.status = 500 =>
                /\ \/ req'.body.parse # "object"
                   \/ HandledEvent(req'.body) /\ req'.body.payload \in {"absent", "noObject"}
                /\ resp'.handled = ""
                /\ products' = products /\ orders' = orders
           /\ (req'.body.parse = "object" /\ HandlerOf(req'.body.event) = "")
                => /\ resp'.status = 200 /\ resp'.message = "ok"
                   /\ products' = products /\ orders' = orders
      /\ (products' # products \/ orders' # orders) => phase = "idle" /\ phase' = "done"
      /\ phase = "done" => phase' = "idle" /\ products' = products /\ orders' = orders ]_vars

\* A signed payment.captured event was answered 200 although a product call
\* of its handler rejected: the handler's catch block wrote the error, the
\* order is confirmed and no stock has been decremented.
C20_Witness ==
  /\ Answered("/webhooks/razorpay")
  /\ WebhookSignatureOk(req)
  /\ req.body.event = "payment.captured"
  /\ req.body.payload = "entity"
  /\ req.body.orderId \in 1..Len(orders)
  /\ resp.status = 200
  /\ resp.log = <<"Error handling payment captured:">>
  /\ orders[req.body.orderId].status = "confirmed"
  /\ products = InitialProducts


----------------------------------------------------------------------------
(* Two orders of one user in the store: the requests that confirm them *)

NextPair ==
  \/ VerifyPayment
  \/ RazorpayWebhook
  \/ Finish

SpecPair == InitRace /\ [][NextPair]_vars

\* The verify-payment request of the step got past the signature, the lookup
\* of the order and the ownership check: the handler saves the order as
\* confirmed.
VerifyConfirms(o) ==
  /\ Handling("/cart/verify-payment")
  /\ req'.user # NoUser
  /\ VerifySignatureOk(req')
  /\ req'.orderId = o
  /\ o \in 1..Len(orders)
  /\ orders[o].user = req'.user

\* C22: POST /cart/verify-payment confirms an order O only if the gateway
\* order id covered by the accepted signature is O.paymentInfo.razorpayOrderId.
C22_SignedPaymentBelongsToOrder ==
  [][ \A o \in 1..Len(orders) :
        (VerifyConfirms(o) /\ orders'[o].status = "confirmed")
          => req'.razorpay_order_id = orders[o].paymentInfo.razorpayOrderId ]_vars

\* The owner's verify-payment request for order 2, carrying the gateway's
\* signature for the payment of order 1's gateway order, was answered 200:
\* order 2 is confirmed and order 1 is still pending.
C22_OtherOrdersPayment ==
  /\ Answered("/cart/verify-payment")
  /\ VerifySignatureOk(req)
  /\ resp.status = 200
  /\ req.orderId = 2
  /\ req.razorpay_order_id = orders[1].paymentInfo.razorpayOrderId
  /\ req.razorpay_order_id # orders[2].paymentInfo.razorpayOrderId
  /\ orders[2].status = "confirmed"
  /\ orders[2].paymentInfo.razorpayPaymentId = req.razorpay_payment_id
  /\ orders[1].status = "pending"


----------------------------------------------------------------------------
(* POST /cart/verify-payment for an order the caller cannot confirm *)

\* C23: a verify-payment request of an authenticated user whose signature
\* matches is answered 404 when orderId names no order and 403 when the
\* order belongs to another user, and in both cases no order and no product
\* is changed.
C23_UnconfirmableLeavesState ==
  [][ (/\ Handling("/cart/verify-payment")
       /\ req'.user # NoUser
       /\ VerifySignatureOk(req'))
      => /\ req'.orderId \notin 1..Len(orders)
              => /\ resp'.status = 404
                 /\ orders' = orders /\ products' = products
         /\ (req'.orderId \in 1..Len(orders) /\ orders[req'.orderId].user # req'.user)
              => /\ resp'.status = 403
                 /\ orders' = orders /\ products' = products ]_vars

\* A user's verify-payment request with a matching signature for a pending
\* order of another user was answered 403, and the order is still pending
\* with no payment recorded.
C23_Witness ==
  /\ Answered("/cart/verify-payment")
  /\ VerifySignatureOk(req)
  /\ req.user # NoUser
  /\ req.orderId \in 1..Len(orders)
  /\ orders[req.orderId].user # req.user
  /\ resp.status = 403
  /\ orders[req.orderId].status = "pending"
  /\ orders[req.orderId].paymentInfo.status = "pending"
  /\ orders[req.orderId].paymentInfo.razorpayPaymentId = ""


----------------------------------------------------------------------------
(* payment.captured on a catalog whose stocks, products and variants change *)

\* The carts of the two orders in the store.
FirstCarts ==
  { << CartItem("pA", "S", 1, 0) >>,
    << CartItem("pC", "S", 1, 0) >> }

SecondCarts ==
  { << CartItem("pA", "S", 2, 0), CartItem("pC", "S", 1, 0) >>,
    << CartItem("pC", "S", 1, 0), CartItem("pA", "S", 2, 0) >>,
    << CartItem("pA", "M", 1, 0), CartItem("pA", "S", 1, 0) >> }

InitCaptured ==
  /\ products = InitialProducts
  /\ \E first \in FirstCarts, second \in SecondCarts :
       /\ orders = TwoOrders(first, second).orders
       /\ gatewayOrders = TwoOrders(first, second).gatewayOrders
  /\ phase = "idle"
  /\ req = BlankReq
  /\ resp = BlankResp
  /\ inflight = <<>>

\* Products the catalog may lose, and the variant a product may lose.
RemovableProducts == {"pA", "pC"}
RemovableSize == "S"

\* The product's document is deleted from the collection: findById gives null.
RemoveProduct ==
  /\ phase = "idle"
  /\ \E gone \in RemovableProducts \cap DOMAIN products :
       products' = [p \in DOMAIN products \ {gone} |-> products[p]]
  /\ UNCHANGED <<orders, gatewayOrders, phase, req, resp, inflight>>

\* The product is saved without one of its variants: variants.find gives
\* undefined for it.
RemoveVariant ==
  /\ phase = "idle"
  /\ \E p \in RemovableProducts \cap DOMAIN products :
       LET keeps(variant) == variant.size # RemovableSize
           doc == [products[p] EXCEPT !.variants = SelectSeq(@, keeps)]
       IN /\ doc # products[p]
          /\ products' = SaveProductDoc(products, p, doc).products
  /\ UNCHANGED <<orders, gatewayOrders, phase, req, resp, inflight>>

NextCaptured ==
  \/ RazorpayWebhook
  \/ RemoveProduct
  \/ RemoveVariant
  \/ Finish

SpecCaptured == InitCaptured /\ [][NextCaptured]_vars

\* The quantities of the items that name the variant, in the order of the items.
QuantitiesOf(items, p, size, design) ==
  LET names(item) == item.product = p /\ item.size = size /\ item.design = design
      named == SelectSeq(items, names)
  IN [i \in 1..Len(named) |-> named[i].quantity]

\* A stock after items of these quantities were gone through one by one, each
\* taken from the stock only if the stock at its turn was at least its quantity.
RECURSIVE TakenWhenEnough(_, _)
TakenWhenEnough(stock, quantities) ==
  IF quantities = <<>> THEN stock
  ELSE TakenWhenEnough(IF stock >= Head(quantities) THEN stock - Head(quantities)
                       ELSE stock,
                       Tail(quantities))

\* C27: when a validly signed payment.captured for an existing order is
\* handled, the order is confirmed whatever the stocks are; every variant
\* the catalog holds ends with its stock less the quantities of the order's
\* items that name it, each taken only if the stock at its turn was at least
\* the quantity, the later items being gone through after one was passed
\* over; an item whose product or variant is gone changes nothing, and no
\* product or variant appears or disappears.
C27_CapturedDecrementsWhenEnough ==
  [][ \A o \in 1..Len(orders) :
        (/\ Handling("/webhooks/razorpay")
         /\ WebhookSignatureOk(req')
         /\ req'.body.event = "payment.captured"
         /\ req'.body.orderId = o)
        => /\ orders'[o].status = "confirmed"
           /\ DOMAIN products' = DOMAIN products
           /\ \A p \in DOMAIN products :
                /\ Len(products'[p].variants) = Len(products[p].variants)
                /\ \A v \in 1..Len(products[p].variants) :
                     LET variant == products[p].variants[v] IN
                     products'[p].variants[v] =
                       [variant EXCEPT !.stock =
                          TakenWhenEnough(variant.stock,
                            QuantitiesOf(orders[o].items, p, variant.size, variant.design))]
    ]_vars

\* Order 2 asks two of pA (S) and one of pC (in either order of its items),
\* order 1 one of pA (S).  After payment.captured for both, one unit of pA is
\* left: the two units of order 2 were never taken, the stock being 1 at
\* their turn, the unit of pC was taken, and order 2 is confirmed.
C27_Witness ==
  /\ Answered("/webhooks/razorpay")
  /\ WebhookSignatureOk(req)
  /\ req.body.event = "payment.captured"
  /\ req.body.orderId = 2
  /\ QuantitiesOf(orders[1].items, "pA", "S", "classic") = <<1>>
  /\ QuantitiesOf(orders[2].items, "pA", "S", "classic") = <<2>>
  /\ QuantitiesOf(orders[2].items, "pC", "S", "classic") = <<1>>
  /\ orders[2].items[1].product = "pA"
  /\ orders[1].status = "confirmed"
  /\ orders[2].status = "confirmed"
  /\ "pA" \in DOMAIN products /\ "pC" \in DOMAIN products
  /\ Len(products["pA"].variants) = 2 /\ Len(products["pC"].variants) = 1
  /\ products["pA"].variants[1].stock = 1
  /\ products["pC"].variants[1].stock = 0


----------------------------------------------------------------------------
(* Payment events for an order whose payment has already been settled *)

\* C26: no step takes a confirmed order to cancelled or its
\* paymentInfo.status to failed, and no step takes a cancelled order to
\* confirmed or changes a stock on the handling of a confirmation for it.
C26_OutcomesFinal ==
  [][ \A o \in 1..Len(orders) :
        /\ orders[o].status = "confirmed"
             => /\ orders'[o].status # "cancelled"
                /\ orders'[o].paymentInfo.status # "failed"
        /\ orders[o].status = "cancelled"
             => /\ orders'[o].status # "confirmed"
                /\ (ConfirmationFor(o) => products' = products) ]_vars

\* A validly signed payment.failed webhook was answered for an order that a
\* payment.captured had confirmed (paidAt is set): the order is cancelled and
\* its paymentInfo.status is failed.
C26_CancelledAfterConfirmed ==
  /\ Answered("/webhooks/razorpay")
  /\ WebhookSignatureOk(req)
  /\ req.body.event = "payment.failed"
  /\ req.body.orderId \in 1..Len(orders)
  /\ orders[req.body.orderId].paymentInfo.paidAt
  /\ orders[req.body.orderId].paymentInfo.razorpayPaymentId # ""
  /\ orders[req.body.orderId].status = "cancelled"
  /\ orders[req.body.orderId].paymentInfo.status = "failed"


----------------------------------------------------------------------------
(* Stocks in the store *)

\* C24: in every state the store can be in, every variant of every product
\* has a stock of at least 0.
C24_StockNeverNegative ==
  \A p \in DOMAIN products : \A v \in 1..Len(products[p].variants) :
    products[p].variants[v].stock >= 0

\* A verify-payment handler took an item's quantity from a stock of 0 on its
\* local document, product.save() refused the document and the handler ended
\* in its catch block; the stock in the store is still 0.
C24_Witness ==
  \E h \in Handlers :
    /\ inflight[h].kind = "verify-payment"
    /\ inflight[h].pc = "failed"
    /\ inflight[h].status = 500
    /\ inflight[h].variant # 0
    /\ inflight[h].product.variants[inflight[h].variant].stock < 0
    /\ LET item == orders[inflight[h].orderId].items[inflight[h].item]
       IN products[item.product].variants[inflight[h].variant].stock = 0


----------------------------------------------------------------------------
(* Units sold against units in stock *)

\* The units of a variant that the confirmed orders among ords[1..n] hold.
RECURSIVE ConfirmedUnits(_, _, _, _, _)
ConfirmedUnits(ords, n, p, size, design) ==
  IF n = 0 THEN 0
  ELSE (IF ords[n].status = "confirmed"
        THEN QuantityOf(ords[n].items, p, size, design) ELSE 0)
       + ConfirmedUnits(ords, n - 1, p, size, design)

\* C25: for every variant, the confirmed orders together hold at most the
\* units the variant had in stock at the start.
C25_NoOverselling ==
  \A p \in DOMAIN InitialProducts : \A v \in 1..Len(InitialProducts[p].variants) :
    LET variant == InitialProducts[p].variants[v] IN
    ConfirmedUnits(orders, Len(orders), p, variant.size, variant.design) <= variant.stock

\* Two orders of one unit of pC each, made while pC had its one unit in
\* stock, are both confirmed; the stock of pC is 0.
C25_BothConfirmed ==
  /\ Len(orders) = 2
  /\ \A o \in 1..2 :
       /\ orders[o].status = "confirmed"
       /\ QuantityOf(orders[o].items, "pC", "S", "classic") = 1
  /\ InitialProducts["pC"].variants[1].stock = 1
  /\ products["pC"].variants[1].stock = 0


----------------------------------------------------------------------------
(* The checkout page: class RazorpayCheckout in the browser.  In this        *)
(* specification inflight holds the page: the instance's fields, what the   *)
(* page shows, and the calls of its async methods that are under way.       *)

MaxCalls == 3               \* calls of initiateCheckout followed on one page

\* The carts localStorage may hold when the page is loaded.
PageCarts ==
  { << >>,
    << CartItem("pC", "S", 1, 0) >> }

\* The user of the session cookie a request of the page is sent with.
SessionUsers == {"u1", NoUser}

Toast(type, message) == [type |-> type, message |-> message]

\* What fetch has resolved with: response.ok, whether response.json() will
\* parse the body, and the body.
NoResponse == [ok |-> FALSE, json |-> FALSE, body |-> BlankResp]

\* fetch() on the server's answer.  A 302 is followed to the login page, which
\* is no JSON; any other answer is handed over as it is, ok for a 2xx status.
FetchResponse(answer) ==
  IF answer.status = 302
  THEN [ok |-> TRUE, json |-> FALSE, body |-> BlankResp]
  ELSE [ok |-> answer.status \in 200..299, json |-> TRUE, body |-> answer]

\* constructor(): this.cart from localStorage, this.isProcessing = false.
NewPage(cart) ==
  [cart |-> cart, cartStored |-> TRUE, isProcessing |-> FALSE,
   loader |-> "", toasts |-> <<>>,
   checkouts |-> <<>>, widgets |-> <<>>, verifications |-> <<>>,
   timers |-> <<>>, location |-> [page |-> "checkout", orderId |-> 0]]

InitPage ==
  /\ products = InitialProducts
  /\ orders = <<>>
  /\ gatewayOrders = <<>>
  /\ phase = "idle"
  /\ req = BlankReq
  /\ resp = BlankResp
  /\ \E cart \in PageCarts : inflight = NewPage(cart)

\* The page is still the checkout page: its scripts run.
OnCheckoutPage == inflight.location.page = "checkout"

\* catch (error) { this.showError(...) } finally { this.isProcessing = false;
\* this.hideLoader() } of initiateCheckout.
CheckoutCaught(page, message) ==
  [page EXCEPT !.toasts = Append(@, Toast("error", message)),
               !.isProcessing = FALSE, !.loader = ""]

\* initiateCheckout(shippingInfo) up to its first await: the call returns at
\* once while isProcessing is set; an empty cart is thrown and caught;
\* otherwise the create-order request is sent.
InitiateCheckoutCall(page) ==
  IF page.isProcessing
  THEN [page EXCEPT !.checkouts = Append(@, [pc |-> "returned", response |-> NoResponse])]
  ELSE IF Len(page.cart) = 0
  THEN [CheckoutCaught(page, "Cart is empty") EXCEPT
          !.checkouts = Append(@, [pc |-> "done", response |-> NoResponse])]
  ELSE [page EXCEPT !.isProcessing = TRUE, !.loader = "Creating order...",
                    !.checkouts = Append(@, [pc |-> "fetch", response |-> NoResponse])]

\* The submit handler of the checkout form, or any other caller.
InitiateCheckout ==
  /\ OnCheckoutPage
  /\ Len(inflight.checkouts) < MaxCalls
  /\ inflight' = InitiateCheckoutCall(inflight)
  /\ UNCHANGED <<products, orders, gatewayOrders, phase, req, resp>>

\* The server answers the create-order request of call c.
ServeCreateOrder(c) ==
  /\ inflight.checkouts[c].pc = "fetch"
  /\ \E user \in SessionUsers, gatewayUp \in BOOLEAN :
       LET r == [BlankReq EXCEPT !.route = "/cart/create-razorpay-order",
                                 !.user = user, !.items = inflight.cart,
                                 !.shippingInfo = "address"]
           out == CheckoutOutcome(products, orders, gatewayOrders, r, gatewayUp)
       IN /\ orders' = out.orders
          /\ gatewayOrders' = out.gatewayOrders
          /\ inflight' = [inflight EXCEPT
               !.checkouts[c] = [pc |-> "response", response |-> FetchResponse(out.resp)]]
  /\ UNCHANGED <<products, phase, req, resp>>

\* The request of call c does not reach the server: fetch rejects.
CreateOrderFetchFails(c) ==
  /\ inflight.checkouts[c].pc = "fetch"
  /\ inflight' = [inflight EXCEPT !.checkouts[c].pc = "rejected"]
  /\ UNCHANGED <<products, orders, gatewayOrders, phase, req, resp>>

\* await fetch(...) of call c is over, and response.json() is awaited, for
\* the error of a response that is not ok as for the order data of one that is.
ReadCreateOrderResponse(c) ==
  /\ OnCheckoutPage
  /\ inflight.checkouts[c].pc = "response"
  /\ inflight' = [inflight EXCEPT !.checkouts[c].pc = "json"]
  /\ UNCHANGED <<products, orders, gatewayOrders, phase, req, resp>>

\* openRazorpayCheckout(orderData): new Razorpay(options); rzp.open(), which
\* returns with the widget open.
OpenRazorpayCheckout(page, orderData) ==
  [page EXCEPT !.widgets = Append(@, [state |-> "open",
                                      orderId |-> orderData.orderId,
                                      razorpayOrderId |-> orderData.razorpayOrderId])]

\* The rest of initiateCheckout of call c: the rejection of fetch or of
\* response.json() and the error of a response that is not ok are thrown and
\* caught; otherwise the widget is opened; finally isProcessing is reset and
\* the loader hidden.
CheckoutSettled(page, c) ==
  LET call == page.checkouts[c]
      done == [page EXCEPT !.checkouts[c].pc = "done"]
  IN IF call.pc = "rejected" THEN CheckoutCaught(done, "Failed to fetch")
     ELSE IF ~call.response.json THEN CheckoutCaught(done, "Unexpected token")
     ELSE IF ~call.response.ok THEN CheckoutCaught(done, call.response.body.message)
     ELSE [OpenRazorpayCheckout(done, call.response.body) EXCEPT
             !.isProcessing = FALSE, !.loader = ""]

SettleCheckout(c) ==
  /\ OnCheckoutPage
  /\ inflight.checkouts[c].pc \in {"rejected", "json"}
  /\ inflight' = CheckoutSettled(inflight, c)
  /\ UNCHANGED <<products, orders, gatewayOrders, phase, req, resp>>

\* The widget is open, whether or not it has reported an error.
WidgetOpen(widget) == widget.state \in {"open", "erred"}

\* handlePaymentSuccess(response, orderId) up to its await: the loader is
\* shown and the verification request sent.
HandlePaymentSuccessCall(page, w, response) ==
  [page EXCEPT !.loader = "Verifying payment...",
               !.widgets[w].state = "paid",
               !.verifications =
                  Append(@, [pc |-> "fetch", orderId |-> page.widgets[w].orderId,
                             payment |-> response, response |-> NoResponse])]

\* The widget's handler callback: the payment of the widget's gateway order
\* succeeded, and the gateway hands over its ids and its signature.
PaymentSucceeds(w) ==
  /\ OnCheckoutPage
  /\ WidgetOpen(inflight.widgets[w])
  /\ \E paymentId \in PaymentIds :
       LET razorpayOrderId == inflight.widgets[w].razorpayOrderId
           response == [razorpay_payment_id |-> paymentId,
                        razorpay_order_id |-> razorpayOrderId,
                        razorpay_signature |->
                          Hmac(KeySecret, <<razorpayOrderId, paymentId>>)]
       IN inflight' = HandlePaymentSuccessCall(inflight, w, response)
  /\ UNCHANGED <<products, orders, gatewayOrders, phase, req, resp>>

\* handlePaymentCancel()
HandlePaymentCancel(page) ==
  [page EXCEPT !.toasts = Append(@, Toast("info", "Payment cancelled. You can try again."))]

\* handlePaymentError(error)
HandlePaymentError(page) ==
  [page EXCEPT !.toasts = Append(@, Toast("error", "Payment failed. Please try again."))]

\* modal.ondismiss: the user closes the widget.
WidgetDismissed(w) ==
  /\ OnCheckoutPage
  /\ WidgetOpen(inflight.widgets[w])
  /\ inflight' = HandlePaymentCancel([inflight EXCEPT !.widgets[w].state = "dismissed"])
  /\ UNCHANGED <<products, orders, gatewayOrders, phase, req, resp>>

\* The widget's error callback; the widget stays open.
WidgetErrs(w) ==
  /\ OnCheckoutPage
  /\ inflight.widgets[w].state = "open"
  /\ inflight' = HandlePaymentError([inflight EXCEPT !.widgets[w].state = "erred"])
  /\ UNCHANGED <<products, orders, gatewayOrders, phase, req, resp>>

\* The request the page sent for verification v, as the server receives it.
VerifyRequest(verification, user) ==
  [BlankReq EXCEPT !.route = "/cart/verify-payment", !.user = user,
                   !.razorpay_payment_id = verification.payment.razorpay_payment_id,
                   !.razorpay_order_id = verification.payment.razorpay_order_id,
                   !.razorpay_signature = verification.payment.razorpay_signature,
                   !.orderId = verification.orderId]

\* The server answers the verify-payment request of verification v.
ServeVerifyPayment(v) ==
  /\ inflight.verifications[v].pc = "fetch"
  /\ \E user \in SessionUsers :
       LET out == VerifyOutcome(products, orders,
                                VerifyRequest(inflight.verifications[v], user))
       IN /\ orders' = out.orders
          /\ products' = out.products
          /\ inflight' = [inflight EXCEPT
               !.verifications[v].pc = "response",
               !.verifications[v].response = FetchResponse(out.resp)]
  /\ UNCHANGED <<gatewayOrders, phase, req, resp>>

\* The request of verification v does not reach the server: fetch rejects.
VerifyFetchFails(v) ==
  /\ inflight.verifications[v].pc = "fetch"
  /\ inflight' = [inflight EXCEPT !.verifications[v].pc = "rejected"]
  /\ UNCHANGED <<products, orders, gatewayOrders, phase, req, resp>>

\* catch (error) { this.showError(...) } finally { this.hideLoader() } of
\* handlePaymentSuccess.
VerificationCaught(page, v) ==
  [page EXCEPT !.verifications[v].pc = "done",
               !.toasts = Append(@, Toast("error",
                            "Payment verification failed. Please contact support.")),
               !.loader = ""]

\* Mutation of AfterVerifyFetch: response.ok is not looked at.
AfterVerifyFetchAnyStatus(page, v) ==
  IF page.verifications[v].pc = "rejected" THEN VerificationCaught(page, v)
  ELSE [page EXCEPT !.verifications[v].pc = "json"]

\* handlePaymentSuccess after await fetch(...): a rejection and a response
\* that is not ok are thrown and caught; otherwise response.json() is awaited.
AfterVerifyFetch(page, v) ==
  IF page.verifications[v].pc = "rejected" THEN VerificationCaught(page, v)
  ELSE IF ~page.verifications[v].response.ok THEN VerificationCaught(page, v)
  ELSE [page EXCEPT !.verifications[v].pc = "json"]

ReadVerifyResponse(v) ==
  /\ OnCheckoutPage
  /\ inflight.verifications[v].pc \in {"response", "rejected"}
  /\ inflight' = AfterVerifyFetch(inflight, v)
  /\ UNCHANGED <<products, orders, gatewayOrders, phase, req, resp>>

\* handlePaymentSuccess after await verifyResponse.json(): a body that does
\* not parse is thrown and caught; otherwise the cart is removed from
\* localStorage, the success toast shown and the redirect set for 2000 ms
\* later; finally the loader is hidden.
VerificationSettled(page, v) ==
  IF ~page.verifications[v].response.json THEN VerificationCaught(page, v)
  ELSE [page EXCEPT !.verifications[v].pc = "done",
                    !.cartStored = FALSE,
                    !.toasts = Append(@, Toast("success", "Payment successful! Redirecting...")),
                    !.timers = Append(@, page.verifications[v].orderId),
                    !.loader = ""]

SettleVerification(v) ==
  /\ OnCheckoutPage
  /\ inflight.verifications[v].pc = "json"
  /\ inflight' = VerificationSettled(inflight, v)
  /\ UNCHANGED <<products, orders, gatewayOrders, phase, req, resp>>

\* The timer set by setTimeout runs: window.location.href = `/orders/${orderId}`,
\* and the page is left.
RedirectTimerFires ==
  /\ OnCheckoutPage
  /\ Len(inflight.timers) > 0
  /\ inflight' = [inflight EXCEPT !.location = [page |-> "orders", orderId |-> Head(inflight.timers)],
                                  !.timers = Tail(@)]
  /\ UNCHANGED <<products, orders, gatewayOrders, phase, req, resp>>

NextPage ==
  \/ InitiateCheckout
  \/ \E c \in 1..Len(inflight.checkouts) : ServeCreateOrder(c)
  \/ \E c \in 1..Len(inflight.checkouts) : CreateOrderFetchFails(c)
  \/ \E c \in 1..Len(inflight.checkouts) : ReadCreateOrderResponse(c)
  \/ \E c \in 1..Len(inflight.checkouts) : SettleCheckout(c)
  \/ \E w \in 1..Len(inflight.widgets) : PaymentSucceeds(w)
  \/ \E w \in 1..Len(inflight.widgets) : WidgetDismissed(w)
  \/ \E w \in 1..Len(inflight.widgets) : WidgetErrs(w)
  \/ \E v \in 1..Len(inflight.verifications) : ServeVerifyPayment(v)
  \/ \E v \in 1..Len(inflight.verifications) : VerifyFetchFails(v)
  \/ \E v \in 1..Len(inflight.verifications) : ReadVerifyResponse(v)
  \/ \E v \in 1..Len(inflight.verifications) : SettleVerification(v)
  \/ RedirectTimerFires

SpecPage == InitPage /\ [][NextPage]_vars


\* The verification v has ended in this step.
VerificationEnds(v) ==
  /\ inflight.verifications[v].pc # "done"
  /\ inflight'.verifications[v].pc = "done"

\* The response of verification v is no OK response with a body to read, or
\* there is none.
VerificationFailed(verification) ==
  \/ verification.pc = "rejected"
  \/ ~verification.response.ok
  \/ ~verification.response.json

\* C21: a verification request is sent only by the widget's success
\* callback, with the payment id, gateway order id and signature the widget
\* handed over and the orderId of the widget's order; the cart is removed
\* from localStorage and the redirect to the order set only in the step that
\* ends a verification whose request returned an OK response; a verification
\* that failed or whose request was rejected ends with the cart kept, an
\* error toast added and no redirect set; the page is left only for the
\* order of a redirect that was set; and a dismissal or an error of the
\* widget adds a toast and starts no checkout and no verification.
C21_DriverOrdering ==
  [][ /\ inflight'.verifications # inflight.verifications
           => \/ \E v \in 1..Len(inflight.verifications) :
                   inflight'.verifications[v] # inflight.verifications[v]
              \/ \E w \in 1..Len(inflight.widgets) :
                   LET sent == inflight'.verifications[Len(inflight'.verifications)]
                       widget == inflight.widgets[w]
                   IN /\ WidgetOpen(widget)
                      /\ inflight'.widgets[w].state = "paid"
                      /\ inflight'.verifications = Append(inflight.verifications, sent)
                      /\ sent.pc = "fetch"
                      /\ sent.orderId = widget.orderId
                      /\ sent.payment.razorpay_order_id = widget.razorpayOrderId
                      /\ sent.payment.razorpay_signature =
                           Hmac(KeySecret, <<widget.razorpayOrderId,
                                             sent.payment.razorpay_payment_id>>)
      /\ (inflight'.cartStored # inflight.cartStored
          \/ Len(inflight'.timers) > Len(inflight.timers))
           => \E v \in 1..Len(inflight.verifications) :
                /\ VerificationEnds(v)
                /\ inflight.verifications[v].pc = "json"
                /\ inflight.verifications[v].response.ok
                /\ ~inflight'.cartStored
                /\ inflight'.timers = Append(inflight.timers, inflight.verifications[v].orderId)
      /\ \A v \in 1..Len(inflight.verifications) :
           (VerificationEnds(v) /\ VerificationFailed(inflight.verifications[v]))
             => /\ inflight'.cartStored = inflight.cartStored
                /\ inflight'.timers = inflight.timers
                /\ inflight'.location = inflight.location
                /\ inflight'.toasts =
                     Append(inflight.toasts,
                            Toast("error", "Payment verification failed. Please contact support."))
      /\ inflight'.location # inflight.location
           => /\ Len(inflight.timers) > 0
              /\ inflight'.location = [page |-> "orders", orderId |-> Head(inflight.timers)]
      /\ \A w \in 1..Len(inflight.widgets) :
           (WidgetOpen(inflight.widgets[w])
            /\ inflight'.widgets[w].state \in {"dismissed", "erred"}
            /\ inflight'.widgets[w].state # inflight.widgets[w].state)
             => /\ Len(inflight'.toasts) = Len(inflight.toasts) + 1
                /\ inflight' = [inflight EXCEPT !.widgets = inflight'.widgets,
                                                !.toasts = inflight'.toasts]
                /\ Len(inflight'.widgets) = Len(inflight.widgets)
                /\ UNCHANGED <<products, orders, gatewayOrders>> ]_vars

\* One verification ended after an OK response: the cart is gone from
\* localStorage and the redirect to its order is set; another ended after a
\* response that was not OK, and set none; the page is still shown.
C21_Witness ==
  /\ OnCheckoutPage
  /\ ~inflight.cartStored
  /\ \E v, u \in 1..Len(inflight.verifications) :
       /\ inflight.verifications[v].pc = "done"
       /\ ~VerificationFailed(inflight.verifications[v])
       /\ inflight.timers = << inflight.verifications[v].orderId >>
       /\ orders[inflight.verifications[v].orderId].status = "confirmed"
       /\ inflight.verifications[u].pc = "done"
       /\ ~inflight.verifications[u].response.ok
       /\ inflight.verifications[u].response.json


\* The calls of initiateCheckout whose create-order request has been sent
\* and whose response the call has not taken up yet.
CreateOrderInFlight(page) ==
  {c \in 1..Len(page.checkouts) : page.checkouts[c].pc \in {"fetch", "response", "json"}}

\* Per instance at most one create-order request is in flight, and then
\* isProcessing is set; a call made while isProcessing is set returns with
\* nothing sent, nothing opened and nothing shown; and a call that ends
\* leaves isProcessing reset.
OneCreateOrderInFlight ==
  [][ /\ Cardinality(CreateOrderInFlight(inflight)) <= 1
      /\ CreateOrderInFlight(inflight) # {} => inflight.isProcessing
      /\ (inflight.isProcessing /\ Len(inflight'.checkouts) > Len(inflight.checkouts))
           => inflight' = [inflight EXCEPT
                 !.checkouts = Append(@, [pc |-> "returned", response |-> NoResponse])]
      /\ \A c \in 1..Len(inflight'.checkouts) :
           (/\ inflight'.checkouts[c].pc = "done"
            /\ (c > Len(inflight.checkouts) \/ inflight.checkouts[c].pc # "done"))
             => ~inflight'.isProcessing ]_vars

\* C28: per instance at most one create-order request is in flight, a call
\* of initiateCheckout made while isProcessing is set sends and opens
\* nothing, every call that ends leaves isProcessing reset, and no order is
\* created by a request of the page while a widget of the page is open.
C28_OneCheckoutAtATime ==
  [][ /\ Cardinality(CreateOrderInFlight(inflight)) <= 1
      /\ (inflight.isProcessing /\ Len(inflight'.checkouts) > Len(inflight.checkouts))
           => inflight' = [inflight EXCEPT
                 !.checkouts = Append(@, [pc |-> "returned", response |-> NoResponse])]
      /\ \A c \in 1..Len(inflight'.checkouts) :
           (/\ inflight'.checkouts[c].pc = "done"
            /\ (c > Len(inflight.checkouts) \/ inflight.checkouts[c].pc # "done"))
             => ~inflight'.isProcessing
      /\ (\E w \in 1..Len(inflight.widgets) : WidgetOpen(inflight.widgets[w]))
           => Len(orders') = Len(orders) ]_vars

\* The widget of the page's first order is open, and the store holds a
\* second order, created by a later call of initiateCheckout on the page
\* whose request was answered OK.
C28_SecondOrderWhileWidgetOpen ==
  /\ OnCheckoutPage
  /\ Len(inflight.widgets) >= 1
  /\ WidgetOpen(inflight.widgets[1])
  /\ inflight.widgets[1].orderId = 1
  /\ Len(orders) = 2
  /\ orders[1].status = "pending"
  /\ \E c \in 2..Len(inflight.checkouts) :
       /\ inflight.checkouts[c].response.ok
       /\ inflight.checkouts[c].response.json
       /\ inflight.checkouts[c].response.body.orderId = 2

====
